---- MODULE Spec2Model ----
(***************************************************************************)
(* State-machine model of the Harmony backend's activity catalog           *)
(* (app/crud/user_priorities.py, app/services/user_priorities.py) and of   *)
(* its per-day activity tracker (app/crud/user_daily_log.py,               *)
(* app/services/user_daily_log.py).                                        *)
(*                                                                         *)
(* The store is the relational database: one user_priorities row per user  *)
(* with four JSON-array columns, user_daily_log rows, and four child rows  *)
(* per log that share the log's id.  One action models one service call,   *)
(* commit included.  Spec, SpecCatalog, SpecDates: requests run one after  *)
(* another.  SpecConc: get_or_create_daily_log requests run in separate    *)
(* sessions and interleave between their SELECT and their INSERT.          *)
(* SpecRace: tracker updates run in separate sessions and interleave       *)
(* between their SELECT and their commit.  SpecBulk: bulk updates.         *)
(* SpecScan: the tracker calls on trackers that hold coping activities.    *)
(* SpecCheckin, SpecJournal: the timestamped check-in and journal entries. *)
(* SpecLifecycle: deletion of a log and its children.  SpecUnits,          *)
(* SpecQuota, SpecBuild, SpecCreate, SpecUpdate, SpecRemove, SpecBulkAdd:  *)
(* the calls that validate, create and edit the activities of the catalog. *)
(* SpecSummary, SpecStreak: the read-only aggregations over the trackers.  *)
(* SpecReads, SpecPercentage: the other read-only calls.  SpecChat: the    *)
(* chatbot conversation of a day.  SpecInitRace, SpecAddRace: the          *)
(* auto-initialization of a tracker and add_user_activity, run in separate *)
(* sessions that interleave between their statements.  SpecErrors: the     *)
(* calls that fail.  SpecIsolation: two users.                             *)
(***************************************************************************)
EXTENDS Integers, Sequences, FiniteSets, TLC

VARIABLES
    priorities,  \* user_priorities table: user id -> the four activity columns
    logs,        \* user_daily_log table: set of rows [id, user_id, date]
    trackers,    \* user_activity_tracker table: log id -> the eight JSON lists
    checkins,    \* user_checkin table: log id -> the four time-series maps
    journals,    \* user_journal table: log id -> journal map
    chatbots,    \* user_chatbot_log table: log id -> conversation list
    nextId,      \* number of user_daily_log ids handed out so far
    reqs,        \* in-flight requests of separate sessions (SpecConc, SpecRace)
    last         \* the last completed call: operation, user, date, argument,
                 \* the tracker's lifecycle stage when it began, outcome, bulk counters

vars == <<priorities, logs, trackers, checkins, journals, chatbots, nextId, reqs, last>>

store == <<priorities, logs, trackers, checkins, journals, chatbots, nextId>>

-----------------------------------------------------------------------------
(* Bounds of the model *)

\* most activities one user_priorities row holds over its four columns
MaxCatalog == 2

\* largest complete value a request carries or an increment reaches
MaxComplete == 1

\* most user_daily_log rows the concurrent specification creates
MaxLogs == 3

Users == {"u1"}

Dates == {"d1", "d2"}

Names == {"walk", "read"}

Procs == {"r1", "r2"}

NoDate == ""

-----------------------------------------------------------------------------
(* Enumerations and reference data *)

PillarName == {"health", "work", "growth", "relationships"}

DIMENSION_UNITS ==
    [time |-> {"minutes", "hours"},
     distance |-> {"steps", "km", "miles", "meters"},
     weight |-> {"kg", "lbs", "grams"},
     volume |-> {"liters", "ml", "gallons"},
     count |-> {"count", "times", "repetitions", "pages", "books", "people", "messages"},
     rating |-> {"rating", "stars"},
     boolean |-> {"completed"},
     text |-> {"text"}]

\* f"{pillar.value}_activities"
ColumnName(pillar) ==
    CASE pillar = "health" -> "health_activities"
      [] pillar = "work" -> "work_activities"
      [] pillar = "growth" -> "growth_activities"
      [] pillar = "relationships" -> "relationships_activities"

Columns == {ColumnName(p) : p \in PillarName}

\* the eight list columns of user_activity_tracker, in the scan order
FieldNames ==
    <<"health_activity", "work_activity", "growth_activity", "relationship_activity",
      "health_coping", "productivity_coping", "mindfulness_coping", "relationship_coping">>

FieldSet == {FieldNames[i] : i \in 1..Len(FieldNames)}

ActivityFields == {"health_activity", "work_activity", "growth_activity", "relationship_activity"}

Categories == {"health", "work", "growth", "relationships", "relationship"}

\* a category string no map knows
BadCategory == "sleep"

\* category=None
NoCategory == "none"

\* the category map with the singular spelling only
category_map_singular(category) ==
    CASE category = "health" -> <<"health_activity", "health_coping">>
      [] category = "work" -> <<"work_activity", "productivity_coping">>
      [] category = "growth" -> <<"growth_activity", "mindfulness_coping">>
      [] category = "relationship" -> <<"relationship_activity", "relationship_coping">>
      [] OTHER -> <<>>

category_map(category) ==
    CASE category = "health" -> <<"health_activity", "health_coping">>
      [] category = "work" -> <<"work_activity", "productivity_coping">>
      [] category = "growth" -> <<"growth_activity", "mindfulness_coping">>
      [] category = "relationships" -> <<"relationship_activity", "relationship_coping">>
      [] category = "relationship" -> <<"relationship_activity", "relationship_coping">>
      [] OTHER -> <<>>

-----------------------------------------------------------------------------
(* Outcomes: the exception a call ends with, or Ok *)

Ok == "ok"
ErrPrioritiesExist == "409 Priorities already exist"
ErrPrioritiesNotFound == "404 Priorities not found"
ErrIntegrity == "sqlalchemy.exc.IntegrityError"
ErrInvalidUnit == "400 Unit is not valid for dimension"
ErrInvalidDimension == "400 Invalid dimension"
ErrActivityExists == "400 Activity already exists in pillar"
ErrNoActivitiesInPillar == "No activities found in pillar"
ErrActivityNotInPillar == "Activity not found in pillar"
ErrNegative == "ValueError: Complete value must be non-negative"
ErrActivityNotFound == "ValueError: Activity not found"
ErrNoPriorities == "ValueError: No user priorities found"
ErrInvalidCategory == "ValueError: Invalid category"
ErrInvalidPillar == "400 Invalid pillar"

-----------------------------------------------------------------------------
(* Activity documents *)

\* Python's None as the value of an optional argument
None == "None"

\* CompleteActivity(...).model_dump()
CompleteActivity(name, description, pillar, dimension, complete, unit, quota_value, reset_frequency) ==
    [name |-> name,
     description |-> description,
     pillar |-> pillar,
     configuration |->
        [dimension |-> dimension,
         complete |-> complete,
         unit |-> unit,
         quota |-> [value |-> quota_value, reset_frequency |-> reset_frequency]]]

\* the pydantic field constraints of CompleteActivity: min_length=1 on name and description,
\* ge=0 on complete, gt=0 on quota.value
ValidCompleteActivity(a) ==
    /\ a.name # ""
    /\ a.description # ""
    /\ a.pillar \in PillarName
    /\ a.configuration.dimension \in DOMAIN DIMENSION_UNITS
    /\ a.configuration.complete >= 0
    /\ a.configuration.quota.value > 0

NamesOf(acts) == {acts[i].name : i \in 1..Len(acts)}

HasName(acts, name) == \E i \in 1..Len(acts) : acts[i].name = name

\* index of the first activity called name (the loop with break / return)
FirstIndex(acts, name) == CHOOSE i \in 1..Len(acts) :
    /\ acts[i].name = name
    /\ \A j \in 1..(i - 1) : acts[j].name # name

CatalogSize(rec) ==
    Len(rec.health_activities) + Len(rec.work_activities)
        + Len(rec.growth_activities) + Len(rec.relationships_activities)

EmptyPriorities == [c \in Columns |-> <<>>]

-----------------------------------------------------------------------------
(* Priorities Store: app/services/user_priorities.py over app/crud/user_priorities.py *)

\* what the caller of one service call observes, with the call's arguments
Call(op, user, date, arg, was, result, success_count, error_count) ==
    [op |-> op, user |-> user, date |-> date, arg |-> arg, was |-> was, result |-> result,
     success_count |-> success_count, error_count |-> error_count]

Done(op, user, date, result) ==
    last' = Call(op, user, date, 0, "", result, 0, 0)

DailyUnchanged == UNCHANGED <<logs, trackers, checkins, journals, chatbots, nextId, reqs>>

\* str.lower() on the pillar strings a request carries
Lower(s) ==
    CASE s = "Health" -> "health"
      [] s = "RELATIONSHIPS" -> "relationships"
      [] OTHER -> s

\* create_priorities without the exists test of lines 79-80: the INSERT of a second row with
\* the user's id violates the primary key
CreatePrioritiesUnchecked(user, data) ==
    /\ IF user \in DOMAIN priorities
         THEN /\ UNCHANGED priorities
              /\ Done("create_priorities", user, NoDate, ErrIntegrity)
         ELSE /\ priorities' = priorities @@ (user :> data)
              /\ Done("create_priorities", user, NoDate, Ok)
    /\ DailyUnchanged

\* create_priorities: data holds the four activity columns (a column left unset is stored as null,
\* which every reader treats as the empty list)
CreatePriorities(user, data) ==
    /\ IF user \in DOMAIN priorities
         THEN /\ UNCHANGED priorities
              /\ Done("create_priorities", user, NoDate, ErrPrioritiesExist)
         ELSE /\ priorities' = priorities @@ (user :> data)
              /\ Done("create_priorities", user, NoDate, Ok)
    /\ DailyUnchanged

\* update_my_priorities: setattr for every field the request sets, the other columns stay
UpdateMyPriorities(user, update_data) ==
    /\ IF user \notin DOMAIN priorities
         THEN /\ UNCHANGED priorities
              /\ Done("update_priorities", user, NoDate, ErrPrioritiesNotFound)
         ELSE /\ priorities' = [priorities EXCEPT ![user] =
                    [c \in Columns |-> IF c \in DOMAIN update_data THEN update_data[c] ELSE @[c]]]
              /\ Done("update_priorities", user, NoDate, Ok)
    /\ DailyUnchanged

\* delete_priorities
DeletePriorities(user) ==
    /\ IF user \notin DOMAIN priorities
         THEN /\ UNCHANGED priorities
              /\ Done("delete_priorities", user, NoDate, ErrPrioritiesNotFound)
         ELSE /\ priorities' = [u \in DOMAIN priorities \ {user} |-> priorities[u]]
              /\ Done("delete_priorities", user, NoDate, Ok)
    /\ DailyUnchanged

\* add_activity_to_pillar without its duplicate check
add_activity_unchecked(existing_activities, activity) ==
    [error |-> Ok, activities |-> Append(existing_activities, activity)]

\* crud add_activity_to_pillar: the duplicate check and the append
add_activity_to_pillar(existing_activities, activity) ==
    IF HasName(existing_activities, activity.name)
      THEN [error |-> ErrActivityExists, activities |-> existing_activities]
      ELSE [error |-> Ok, activities |-> Append(existing_activities, activity)]

\* add_user_activity
AddUserActivity(user, pillar, name, description, dimension, complete, unit, quota_value, reset_frequency) ==
    /\ IF user \notin DOMAIN priorities
         THEN /\ UNCHANGED priorities
              /\ Done("add_activity", user, NoDate, ErrPrioritiesNotFound)
         ELSE IF unit \notin DIMENSION_UNITS[dimension]
         THEN /\ UNCHANGED priorities
              /\ Done("add_activity", user, NoDate, ErrInvalidUnit)
         ELSE LET activity == CompleteActivity(name, description, pillar, dimension,
                                               complete, unit, quota_value, reset_frequency)
                  r == add_activity_to_pillar(priorities[user][ColumnName(pillar)], activity)
              IN  /\ priorities' = [priorities EXCEPT ![user][ColumnName(pillar)] = r.activities]
                  /\ Done("add_activity", user, NoDate, r.error)
    /\ DailyUnchanged

\* a merge that rebuilds the configuration from the request: a field the request leaves out
\* falls back to its default
MergeReplacing(activity, updates) ==
    LET has(k) == k \in DOMAIN updates
        config == activity.configuration
    IN  [name |-> activity.name,
         description |-> IF has("description") THEN updates["description"] ELSE activity.description,
         pillar |-> activity.pillar,
         configuration |->
            [dimension |-> IF has("dimension") THEN updates["dimension"] ELSE config.dimension,
             complete |-> IF has("complete") THEN updates["complete"] ELSE 0,
             unit |-> IF has("unit") THEN updates["unit"] ELSE config.unit,
             quota |->
                [value |-> IF has("quota_value") THEN updates["quota_value"] ELSE config.quota.value,
                 reset_frequency |-> IF has("reset_frequency") THEN updates["reset_frequency"]
                                     ELSE config.quota.reset_frequency]]]

\* crud update_activity_in_pillar: merge the provided fields into the first activity called
\* activity_name
MergeUpdates(activity, updates) ==
    LET has(k) == k \in DOMAIN updates
        config == activity.configuration
    IN  [name |-> activity.name,
         description |-> IF has("description") THEN updates["description"] ELSE activity.description,
         pillar |-> IF has("pillar") THEN updates["pillar"] ELSE activity.pillar,
         configuration |->
            [dimension |-> IF has("dimension") THEN updates["dimension"] ELSE config.dimension,
             complete |-> IF has("complete") THEN updates["complete"] ELSE config.complete,
             unit |-> IF has("unit") THEN updates["unit"] ELSE config.unit,
             quota |->
                [value |-> IF has("quota_value") THEN updates["quota_value"] ELSE config.quota.value,
                 reset_frequency |-> IF has("reset_frequency") THEN updates["reset_frequency"]
                                     ELSE config.quota.reset_frequency]]]

update_activity_in_pillar(existing_activities, activity_name, updates) ==
    IF existing_activities = <<>>
      THEN [error |-> ErrNoActivitiesInPillar, activities |-> existing_activities]
    ELSE IF ~HasName(existing_activities, activity_name)
      THEN [error |-> ErrActivityNotInPillar, activities |-> existing_activities]
    ELSE LET i == FirstIndex(existing_activities, activity_name)
         IN  [error |-> Ok,
              activities |-> [existing_activities EXCEPT ![i] = MergeUpdates(@, updates)]]

\* update_user_activity: updates maps the provided (non-None) arguments to their values
UpdateUserActivity(user, pillar, activity_name, updates) ==
    /\ IF user \notin DOMAIN priorities
         THEN /\ UNCHANGED priorities
              /\ Done("update_activity", user, NoDate, ErrPrioritiesNotFound)
         ELSE IF Lower(pillar) \notin PillarName
         THEN /\ UNCHANGED priorities
              /\ Done("update_activity", user, NoDate, ErrInvalidPillar)
         ELSE IF /\ "dimension" \in DOMAIN updates
                 /\ "unit" \in DOMAIN updates
                 /\ Lower(updates["dimension"]) \notin DOMAIN DIMENSION_UNITS
         THEN /\ UNCHANGED priorities
              /\ Done("update_activity", user, NoDate, ErrInvalidDimension)
         ELSE IF /\ "dimension" \in DOMAIN updates
                 /\ "unit" \in DOMAIN updates
                 /\ updates["unit"] \notin DIMENSION_UNITS[Lower(updates["dimension"])]
         THEN /\ UNCHANGED priorities
              /\ Done("update_activity", user, NoDate, ErrInvalidUnit)
         ELSE LET column_name == ColumnName(Lower(pillar))
                  r == update_activity_in_pillar(priorities[user][column_name], activity_name, updates)
              IN  /\ priorities' = [priorities EXCEPT ![user][column_name] = r.activities]
                  /\ Done("update_activity", user, NoDate, r.error)
    /\ DailyUnchanged

\* crud update_activity_progress behind the service's non-negative check
UpdateActivityProgress(user, pillar, activity_name, complete_value) ==
    /\ IF user \notin DOMAIN priorities
         THEN /\ UNCHANGED priorities
              /\ Done("update_activity_progress", user, NoDate, ErrPrioritiesNotFound)
         ELSE IF Lower(pillar) \notin PillarName
         THEN /\ UNCHANGED priorities
              /\ Done("update_activity_progress", user, NoDate, ErrInvalidPillar)
         ELSE IF complete_value < 0
         THEN /\ UNCHANGED priorities
              /\ Done("update_activity_progress", user, NoDate, ErrNegative)
         ELSE LET column_name == ColumnName(Lower(pillar))
                  updates == [k \in {"complete"} |-> complete_value]
                  r == update_activity_in_pillar(priorities[user][column_name], activity_name, updates)
              IN  /\ priorities' = [priorities EXCEPT ![user][column_name] = r.activities]
                  /\ Done("update_activity_progress", user, NoDate, r.error)
    /\ DailyUnchanged

\* a delete that drops the first activity called activity_name and moves the last activity
\* into its place
delete_activity_swapping(existing_activities, activity_name) ==
    IF ~HasName(existing_activities, activity_name)
      THEN [error |-> ErrActivityNotInPillar, activities |-> existing_activities]
      ELSE LET i == FirstIndex(existing_activities, activity_name)
               n == Len(existing_activities)
           IN  [error |-> Ok,
                activities |-> [j \in 1..(n - 1) |->
                                   IF j = i THEN existing_activities[n]
                                   ELSE existing_activities[j]]]

\* crud delete_activity_from_pillar: the list comprehension that drops activity_name
delete_activity_from_pillar(existing_activities, activity_name) ==
    LET keep(act) == act.name # activity_name
        updated_activities == SelectSeq(existing_activities, keep)
    IN  IF Len(updated_activities) = Len(existing_activities)
          THEN [error |-> ErrActivityNotInPillar, activities |-> existing_activities]
          ELSE [error |-> Ok, activities |-> updated_activities]

\* remove_user_activity
RemoveUserActivity(user, pillar, activity_name) ==
    /\ IF user \notin DOMAIN priorities
         THEN /\ UNCHANGED priorities
              /\ Done("remove_activity", user, NoDate, ErrPrioritiesNotFound)
         ELSE IF Lower(pillar) \notin PillarName
         THEN /\ UNCHANGED priorities
              /\ Done("remove_activity", user, NoDate, ErrInvalidPillar)
         ELSE LET column_name == ColumnName(Lower(pillar))
                  r == delete_activity_from_pillar(priorities[user][column_name], activity_name)
              IN  /\ priorities' = [priorities EXCEPT ![user][column_name] = r.activities]
                  /\ Done("remove_activity", user, NoDate, r.error)
    /\ DailyUnchanged

\* bulk_add_activities that stops at the first activity whose name the list holds
RECURSIVE bulk_add_until_duplicate(_, _)
bulk_add_until_duplicate(existing_activities, activities) ==
    IF activities = <<>> THEN existing_activities
    ELSE IF HasName(existing_activities, Head(activities).name) THEN existing_activities
    ELSE bulk_add_until_duplicate(Append(existing_activities, Head(activities)),
                                  Tail(activities))

\* crud bulk_add_activities, one column: append each activity whose name the list,
\* grown so far, does not hold
RECURSIVE bulk_add_activities(_, _)
bulk_add_activities(existing_activities, activities) ==
    IF activities = <<>> THEN existing_activities
    ELSE bulk_add_activities(
            IF HasName(existing_activities, Head(activities).name)
              THEN existing_activities
              ELSE Append(existing_activities, Head(activities)),
            Tail(activities))

\* bulk_add_user_activities: the requests with a valid unit, built and grouped by pillar
ActivitiesByPillar(requests, pillar) ==
    LET wanted(req) == req.pillar = pillar /\ req.unit \in DIMENSION_UNITS[req.dimension]
        picked == SelectSeq(requests, wanted)
    IN  [i \in 1..Len(picked) |->
            CompleteActivity(picked[i].name, picked[i].description, picked[i].pillar,
                             picked[i].dimension, picked[i].complete, picked[i].unit,
                             picked[i].quota_value, picked[i].reset_frequency)]

BulkAddUserActivities(user, requests) ==
    /\ IF user \notin DOMAIN priorities
         THEN /\ UNCHANGED priorities
              /\ Done("bulk_add", user, NoDate, ErrPrioritiesNotFound)
         ELSE /\ priorities' = [priorities EXCEPT ![user] =
                    [c \in Columns |->
                        LET p == CHOOSE q \in PillarName : ColumnName(q) = c
                        IN  bulk_add_activities(@[c], ActivitiesByPillar(requests, p))]]
              /\ Done("bulk_add", user, NoDate, Ok)
    /\ DailyUnchanged

-----------------------------------------------------------------------------
(* Activity building: app/services/user_priorities.py, build_activity *)

ErrPydantic == "pydantic.ValidationError"

\* build_activity without the test of lines 250-256
build_activity_unchecked(name, description, pillar, dimension, complete, unit, quota_value, reset_frequency) ==
    LET activity == CompleteActivity(name, description, pillar, dimension, complete, unit,
                                     quota_value, reset_frequency)
    IN  IF ~ValidCompleteActivity(activity)
          THEN [error |-> ErrPydantic, activity |-> None]
          ELSE [error |-> Ok, activity |-> activity]

\* build_activity: the HTTPException of the unit test, the ValidationError of the
\* CompleteActivity constructor, or the dumped activity
build_activity(name, description, pillar, dimension, complete, unit, quota_value, reset_frequency) ==
    LET activity == CompleteActivity(name, description, pillar, dimension, complete, unit,
                                     quota_value, reset_frequency)
    IN  IF unit \notin DIMENSION_UNITS[dimension]
          THEN [error |-> ErrInvalidUnit, activity |-> None]
        ELSE IF ~ValidCompleteActivity(activity)
          THEN [error |-> ErrPydantic, activity |-> None]
          ELSE [error |-> Ok, activity |-> activity]

\* one call of build_activity: the caller sees the exception or the activity; no session is
\* passed in
BuildActivity(request) ==
    LET r == build_activity(request.name, request.description, request.pillar,
                            request.dimension, request.complete, request.unit,
                            request.quota_value, request.reset_frequency)
    IN  /\ last' = Call("build_activity", "", NoDate,
                        [request |-> request, activity |-> r.activity], "", r.error, 0, 0)
        /\ UNCHANGED priorities
        /\ DailyUnchanged

-----------------------------------------------------------------------------
(* The endpoints of app/api/routers/priorities.py that store activities: FastAPI validates  *)
(* the body or the query parameters against their declared constraints and answers 422      *)
(* before the endpoint's code runs.                                                          *)

ErrValidation == "422: request validation error"

Rejected(op, user) ==
    /\ UNCHANGED priorities
    /\ Done(op, user, NoDate, ErrValidation)
    /\ DailyUnchanged

\* the pillar lists of a UserPrioritiesCreate / UserPrioritiesUpdate body: each a
\* List[CompleteActivity]
ValidPriorities(data) ==
    \A c \in DOMAIN data : \A i \in DOMAIN data[c] : ValidCompleteActivity(data[c][i])

\* the field constraints and the unit validator of AddActivityRequest
ValidAddActivityRequest(request) ==
    /\ request.pillar \in PillarName
    /\ request.dimension \in DOMAIN DIMENSION_UNITS
    /\ request.complete >= 0
    /\ request.quota_value > 0
    /\ request.unit \in DIMENSION_UNITS[request.dimension]

\* query parameters of update_my_activity taken without their constraints
AnyActivityQuery(updates) == TRUE

\* the query parameters of update_my_activity: complete with ge=0, quota_value with gt=0
ValidActivityQuery(updates) ==
    /\ "complete" \in DOMAIN updates => updates["complete"] >= 0
    /\ "quota_value" \in DOMAIN updates => updates["quota_value"] > 0

\* POST /priorities
create_priorities(user, priorities_data) ==
    IF ValidPriorities(priorities_data)
      THEN CreatePriorities(user, priorities_data)
      ELSE Rejected("create_priorities", user)

\* PUT /priorities/me
update_my_priorities(user, update_data) ==
    IF ValidPriorities(update_data)
      THEN UpdateMyPriorities(user, update_data)
      ELSE Rejected("update_priorities", user)

\* POST /priorities/me/activities
add_my_activity(user, request) ==
    IF ValidAddActivityRequest(request)
      THEN AddUserActivity(user, request.pillar, request.name, request.description,
                           request.dimension, request.complete, request.unit,
                           request.quota_value, request.reset_frequency)
      ELSE Rejected("add_activity", user)

\* PUT /priorities/me/activities/{pillar}/{activity_name}; updates holds the query
\* parameters the request gives
update_my_activity(user, pillar, activity_name, updates) ==
    IF ValidActivityQuery(updates)
      THEN UpdateUserActivity(user, pillar, activity_name, updates)
      ELSE Rejected("update_activity", user)

\* PATCH /priorities/me/activities/{pillar}/{activity_name}/progress: complete with ge=0
update_activity_progress(user, pillar, activity_name, complete) ==
    IF complete >= 0
      THEN UpdateActivityProgress(user, pillar, activity_name, complete)
      ELSE Rejected("update_activity_progress", user)

\* POST /priorities/me/activities/bulk: a body with one invalid item is rejected as a whole
bulk_add_my_activities(user, activities) ==
    IF \A i \in DOMAIN activities : ValidAddActivityRequest(activities[i])
      THEN BulkAddUserActivities(user, activities)
      ELSE Rejected("bulk_add", user)

-----------------------------------------------------------------------------
(* Daily log store: app/crud/user_daily_log.py *)

\* the daily-log tables as one value, so that a call's nested calls compose
DB ==
    [logs |-> logs, trackers |-> trackers, checkins |-> checkins,
     journals |-> journals, chatbots |-> chatbots, nextId |-> nextId]

\* db.commit() of the tables a call has written
Commit(db) ==
    /\ logs' = db.logs
    /\ trackers' = db.trackers
    /\ checkins' = db.checkins
    /\ journals' = db.journals
    /\ chatbots' = db.chatbots
    /\ nextId' = db.nextId

EmptyTracker == [f \in FieldSet |-> <<>>]

EmptyCheckin == [f \in {"mood", "stress_level", "energy_level", "sleep"} |-> <<>>]

EmptyJournal == <<>>

EmptyConversation == <<>>

\* get_by_user_and_date without the filter on the date
get_by_user_any_date(db, user_id, day) ==
    {l \in db.logs : l.user_id = user_id}

\* get_by_user_and_date without the filter on the user
get_by_date_any_user(db, user_id, day) ==
    {l \in db.logs : l.date = day}

\* get_by_user_and_date: the rows the query matches; first() returns one of them, or None
get_by_user_and_date(db, user_id, day) ==
    {l \in db.logs : l.user_id = user_id /\ l.date = day}

\* the id of the row one call works on: the row first() returns, or the id uuid4 gives the
\* row the call inserts
LogIds(db, user_id, day) ==
    IF get_by_user_and_date(db, user_id, day) = {}
      THEN {db.nextId + 1}
      ELSE {l.id : l \in get_by_user_and_date(db, user_id, day)}

Exists(db, id) == \E l \in db.logs : l.id = id

\* create_with_activities: the log row and its four children, in one commit
create_with_activities(db, id, user_id, day, activities) ==
    [logs |-> db.logs \cup {[id |-> id, user_id |-> user_id, date |-> day]},
     trackers |-> db.trackers @@ (id :> activities),
     checkins |-> db.checkins @@ (id :> EmptyCheckin),
     journals |-> db.journals @@ (id :> EmptyJournal),
     chatbots |-> db.chatbots @@ (id :> EmptyConversation),
     nextId |-> db.nextId + 1]

\* populate_activities_from_priorities that writes nothing
populate_nothing(tracker, activities_data) == tracker

\* populate_activities_from_priorities: the four activity lists are replaced, the coping
\* lists stay
populate_activities_from_priorities(tracker, activities_data) ==
    [tracker EXCEPT !.health_activity = activities_data.health,
                    !.work_activity = activities_data.work,
                    !.growth_activity = activities_data.growth,
                    !.relationship_activity = activities_data.relationships]

\* crud get_all_activities
get_all_activities(db_obj) ==
    [health |-> db_obj.health_activities,
     work |-> db_obj.work_activities,
     growth |-> db_obj.growth_activities,
     relationships |-> db_obj.relationships_activities]

-----------------------------------------------------------------------------
(* Daily Tracker Engine: app/services/user_daily_log.py *)

\* _reset_activity_complete_values that copies the catalog's complete values
keep_activity_complete_values(activities) == activities

\* _reset_activity_complete_values
reset_activity_complete_values(activities) ==
    IF activities = <<>> THEN <<>>
    ELSE [i \in 1..Len(activities) |->
            [name |-> activities[i].name,
             description |-> activities[i].description,
             pillar |-> activities[i].pillar,
             configuration |-> [activities[i].configuration EXCEPT !.complete = 0]]]

\* _has_activities
has_activities(tracker) ==
    \/ tracker.health_activity # <<>>
    \/ tracker.work_activity # <<>>
    \/ tracker.growth_activity # <<>>
    \/ tracker.relationship_activity # <<>>

\* the activities_data get_or_create_daily_log builds from the catalog
ActivitiesData(all_activities) ==
    [health_activity |-> reset_activity_complete_values(all_activities.health),
     work_activity |-> reset_activity_complete_values(all_activities.work),
     growth_activity |-> reset_activity_complete_values(all_activities.growth),
     relationship_activity |-> reset_activity_complete_values(all_activities.relationships),
     health_coping |-> <<>>,
     productivity_coping |-> <<>>,
     mindfulness_coping |-> <<>>,
     relationship_coping |-> <<>>]

\* get_or_create_daily_log that rebuilds the tracker of an existing row from the catalog
get_or_create_refreshing(db, user_id, log_date, id) ==
    LET activities == IF user_id \in DOMAIN priorities
                        THEN ActivitiesData(get_all_activities(priorities[user_id]))
                        ELSE EmptyTracker
    IN  IF Exists(db, id)
          THEN [db EXCEPT !.trackers[id] = activities]
          ELSE create_with_activities(db, id, user_id, log_date, activities)

\* get_or_create_daily_log on the row id: returns the tables after the call
get_or_create_daily_log(db, user_id, log_date, id) ==
    IF Exists(db, id) THEN db
    ELSE IF user_id \in DOMAIN priorities
      THEN create_with_activities(db, id, user_id, log_date,
                                  ActivitiesData(get_all_activities(priorities[user_id])))
      ELSE create_with_activities(db, id, user_id, log_date, EmptyTracker)

\* the activities_dict initialize_daily_activities builds from the catalog
ActivitiesDict(all_activities) ==
    [health |-> reset_activity_complete_values(all_activities.health),
     work |-> reset_activity_complete_values(all_activities.work),
     growth |-> reset_activity_complete_values(all_activities.growth),
     relationships |-> reset_activity_complete_values(all_activities.relationships)]

\* the populated test of initialize_daily_activities that never holds
NeverPopulated(existing) == FALSE

\* the has_activities test written out inside initialize_daily_activities
AlreadyPopulated(existing) ==
    \/ existing.health_activity # <<>>
    \/ existing.work_activity # <<>>
    \/ existing.growth_activity # <<>>
    \/ existing.relationship_activity # <<>>

\* initialize_daily_activities that returns the empty tracker when the user has no catalog
initialize_without_catalog(db, user_id, log_date, id) ==
    LET db1 == get_or_create_daily_log(db, user_id, log_date, id)
        existing == db1.trackers[id]
    IN  IF AlreadyPopulated(existing) \/ user_id \notin DOMAIN priorities
          THEN [db |-> db1, error |-> Ok]
        ELSE [db |-> [db1 EXCEPT !.trackers[id] =
                        populate_activities_from_priorities(
                            @, ActivitiesDict(get_all_activities(priorities[user_id])))],
              error |-> Ok]

\* initialize_daily_activities: the tables after the call and the exception it ends with
initialize_daily_activities(db, user_id, log_date, id) ==
    LET db1 == get_or_create_daily_log(db, user_id, log_date, id)
        existing == db1.trackers[id]
    IN  IF AlreadyPopulated(existing)
          THEN [db |-> db1, error |-> Ok]
        ELSE IF user_id \notin DOMAIN priorities
          THEN [db |-> db1, error |-> ErrNoPriorities]
        ELSE [db |-> [db1 EXCEPT !.trackers[id] =
                        populate_activities_from_priorities(
                            @, ActivitiesDict(get_all_activities(priorities[user_id])))],
              error |-> Ok]

\* the first lines of a mutation that fetch or create the row and never initialize it
AutoCreateOnly(db, user_id, log_date, id) ==
    [db |-> get_or_create_daily_log(db, user_id, log_date, id), error |-> Ok]

\* first lines of a mutation that copy the catalog into the tracker on every call
AutoInitializeAlways(db, user_id, log_date, id) ==
    LET db1 == get_or_create_daily_log(db, user_id, log_date, id)
    IN  IF user_id \notin DOMAIN priorities THEN [db |-> db1, error |-> ErrNoPriorities]
        ELSE [db |-> [db1 EXCEPT !.trackers[id] =
                        populate_activities_from_priorities(
                            @, ActivitiesDict(get_all_activities(priorities[user_id])))],
              error |-> Ok]

\* the first lines of every mutation: fetch the tracker, initialize when it is missing or empty
AutoInitialize(db, user_id, log_date, id) ==
    IF ~Exists(db, id) \/ ~has_activities(db.trackers[id])
      THEN initialize_daily_activities(db, user_id, log_date, id)
      ELSE [db |-> db, error |-> Ok]

\* the field names _find_activity_in_tracker scans, in order
SearchFields(category) ==
    IF category # NoCategory THEN category_map(category) ELSE FieldNames

\* _find_activity_in_tracker that keeps the last field, in scan order, that holds activity_name
find_last_in_tracker(tracker, activity_name, category) ==
    LET field_names == SearchFields(category)
        hits == {k \in 1..Len(field_names) : HasName(tracker[field_names[k]], activity_name)}
    IN  IF hits = {}
          THEN [found |-> FALSE, field_name |-> "", idx |-> 0]
          ELSE LET k == CHOOSE h \in hits : \A g \in hits : h >= g
               IN  [found |-> TRUE,
                    field_name |-> field_names[k],
                    idx |-> FirstIndex(tracker[field_names[k]], activity_name)]

\* _find_activity_in_tracker: the first field, in scan order, that holds activity_name, and the
\* first index in it; found = FALSE stands for (None, None)
find_activity_in_tracker(tracker, activity_name, category) ==
    LET field_names == SearchFields(category)
        hits == {k \in 1..Len(field_names) : HasName(tracker[field_names[k]], activity_name)}
    IN  IF hits = {}
          THEN [found |-> FALSE, field_name |-> "", idx |-> 0]
          ELSE LET k == CHOOSE h \in hits : \A g \in hits : h <= g
               IN  [found |-> TRUE,
                    field_name |-> field_names[k],
                    idx |-> FirstIndex(tracker[field_names[k]], activity_name)]

SetComplete(tracker, field_name, idx, value) ==
    [tracker EXCEPT ![field_name][idx].configuration.complete = value]

\* update_activity_complete without the test of lines 606-607
update_activity_unvalidated(db, user_id, log_date, activity_name, complete_value, category, id) ==
    LET t == AutoInitialize(db, user_id, log_date, id)
    IN  IF t.error # Ok THEN t
        ELSE LET loc == find_activity_in_tracker(t.db.trackers[id], activity_name, category)
             IN  IF ~loc.found THEN [db |-> t.db, error |-> ErrActivityNotFound]
                 ELSE [db |-> [t.db EXCEPT !.trackers[id] =
                                 SetComplete(@, loc.field_name, loc.idx, complete_value)],
                       error |-> Ok]

\* update_activity_complete: the tables after the call and the exception it ends with
update_activity_complete(db, user_id, log_date, activity_name, complete_value, category, id) ==
    IF complete_value < 0 THEN [db |-> db, error |-> ErrNegative]
    ELSE LET t == AutoInitialize(db, user_id, log_date, id)
         IN  IF t.error # Ok THEN t
             ELSE LET loc == find_activity_in_tracker(t.db.trackers[id], activity_name, category)
                  IN  IF ~loc.found THEN [db |-> t.db, error |-> ErrActivityNotFound]
                      ELSE [db |-> [t.db EXCEPT !.trackers[id] =
                                      SetComplete(@, loc.field_name, loc.idx, complete_value)],
                            error |-> Ok]

\* current + increment without the floor
NewValueUnclamped(current, increment) == current + increment

\* max(0, current + increment)
NewValue(current, increment) ==
    IF current + increment < 0 THEN 0 ELSE current + increment

\* increment_activity_complete
increment_activity_complete(db, user_id, log_date, activity_name, increment, category, id) ==
    LET t == AutoInitialize(db, user_id, log_date, id)
    IN  IF t.error # Ok THEN t
        ELSE LET tracker == t.db.trackers[id]
                 loc == find_activity_in_tracker(tracker, activity_name, category)
             IN  IF ~loc.found THEN [db |-> t.db, error |-> ErrActivityNotFound]
                 ELSE LET current == tracker[loc.field_name][loc.idx].configuration.complete
                      IN  [db |-> [t.db EXCEPT !.trackers[id] =
                                      SetComplete(@, loc.field_name, loc.idx,
                                                  NewValue(current, increment))],
                           error |-> Ok]

\* the inner loops of the two category resets when they skip the coping lists
ResetActivityLists(tracker, fields) ==
    [f \in FieldSet |->
        IF f \in fields \cap ActivityFields
          THEN [i \in DOMAIN tracker[f] |-> [tracker[f][i] EXCEPT !.configuration.complete = 0]]
          ELSE tracker[f]]

\* the inner loops of the two category resets: complete = 0 for every activity of the fields
ResetFields(tracker, fields) ==
    [f \in FieldSet |->
        IF f \in fields
          THEN [i \in DOMAIN tracker[f] |-> [tracker[f][i] EXCEPT !.configuration.complete = 0]]
          ELSE tracker[f]]

SeqToSet(s) == {s[i] : i \in 1..Len(s)}

\* reset_category_activities
reset_category_activities(db, user_id, log_date, category, id) ==
    LET t == AutoInitialize(db, user_id, log_date, id)
    IN  IF t.error # Ok THEN t
        ELSE IF category_map(category) = <<>>
          THEN [db |-> t.db, error |-> ErrInvalidCategory]
        ELSE [db |-> [t.db EXCEPT !.trackers[id] = ResetFields(@, SeqToSet(category_map(category)))],
              error |-> Ok]

\* reset_all_activities
reset_all_activities(db, user_id, log_date, id) ==
    LET t == AutoInitialize(db, user_id, log_date, id)
    IN  IF t.error # Ok THEN t
        ELSE [db |-> [t.db EXCEPT !.trackers[id] = ResetFields(@, FieldSet)], error |-> Ok]

\* update.get(key): None when the item has no such key
HasKey(update, key) == key \in DOMAIN update

\* bulk_update_activities that gives up at the first item that fails
RECURSIVE bulk_update_aborting(_, _, _, _, _)
bulk_update_aborting(r, user_id, log_date, updates, id) ==
    IF updates = <<>> THEN r
    ELSE LET update == Head(updates)
         IN  IF ~HasKey(update, "name") \/ ~HasKey(update, "complete")
               THEN [r EXCEPT !.error_count = @ + 1]
             ELSE LET u == update_activity_complete(
                              r.db, user_id, log_date, update["name"], update["complete"],
                              IF HasKey(update, "category") THEN update["category"] ELSE NoCategory,
                              id)
                  IN  IF u.error = Ok
                        THEN bulk_update_aborting(
                                [r EXCEPT !.db = u.db, !.success_count = @ + 1],
                                user_id, log_date, Tail(updates), id)
                        ELSE [r EXCEPT !.db = u.db, !.error_count = @ + 1]

\* bulk_update_activities: the loop over the items; r carries the tables and the two counters
RECURSIVE bulk_update_activities(_, _, _, _, _)
bulk_update_activities(r, user_id, log_date, updates, id) ==
    IF updates = <<>> THEN r
    ELSE LET update == Head(updates)
             next ==
                IF ~HasKey(update, "name") \/ ~HasKey(update, "complete")
                  THEN [r EXCEPT !.error_count = @ + 1]
                ELSE LET u == update_activity_complete(
                                 r.db, user_id, log_date, update["name"], update["complete"],
                                 IF HasKey(update, "category") THEN update["category"] ELSE NoCategory,
                                 id)
                     IN  IF u.error = Ok
                           THEN [r EXCEPT !.db = u.db, !.success_count = @ + 1]
                           ELSE [r EXCEPT !.db = u.db, !.error_count = @ + 1]
         IN  bulk_update_activities(next, user_id, log_date, Tail(updates), id)

-----------------------------------------------------------------------------
(* The service calls as actions *)

\* the lifecycle stage of the tracker of row id: no row, a row whose four activity lists are
\* empty, a row with an activity
Lifecycle(db, id) ==
    IF ~Exists(db, id) THEN "Absent"
    ELSE IF \A f \in ActivityFields : db.trackers[id][f] = <<>> THEN "Empty"
    ELSE "Populated"

Finish(op, user, date, arg, id, r) ==
    /\ Commit(r.db)
    /\ last' = Call(op, user, date, arg, Lifecycle(DB, id), r.error, 0, 0)
    /\ UNCHANGED <<priorities, reqs>>

GetOrCreateDailyLog(user, date) ==
    \E id \in LogIds(DB, user, date) :
        Finish("get_or_create", user, date, 0, id,
               [db |-> get_or_create_daily_log(DB, user, date, id), error |-> Ok])

InitializeDailyActivities(user, date) ==
    \E id \in LogIds(DB, user, date) :
        Finish("initialize", user, date, 0, id, initialize_daily_activities(DB, user, date, id))

UpdateActivityComplete(user, date, activity_name, complete_value, category) ==
    \E id \in LogIds(DB, user, date) :
        Finish("update_complete", user, date, complete_value, id,
               update_activity_complete(DB, user, date, activity_name, complete_value, category, id))

IncrementActivityComplete(user, date, activity_name, increment, category) ==
    \E id \in LogIds(DB, user, date) :
        Finish("increment_complete", user, date, increment, id,
               increment_activity_complete(DB, user, date, activity_name, increment, category, id))

\* reset_activity: update_activity_complete with complete_value=0
ResetActivity(user, date, activity_name, category) ==
    \E id \in LogIds(DB, user, date) :
        Finish("reset_activity", user, date, 0, id,
               update_activity_complete(DB, user, date, activity_name, 0, category, id))

ResetCategoryActivities(user, date, category) ==
    \E id \in LogIds(DB, user, date) :
        Finish("reset_category", user, date, 0, id,
               reset_category_activities(DB, user, date, category, id))

ResetAllActivities(user, date) ==
    \E id \in LogIds(DB, user, date) :
        Finish("reset_all", user, date, 0, id, reset_all_activities(DB, user, date, id))

BulkUpdateActivities(user, date, updates) ==
    \E id \in LogIds(DB, user, date) :
        LET r == bulk_update_activities([db |-> DB, success_count |-> 0, error_count |-> 0],
                                        user, date, updates, id)
        IN  /\ Commit(r.db)
            /\ last' = Call("bulk_update", user, date, 0, Lifecycle(DB, id), Ok,
                             r.success_count, r.error_count)
            /\ UNCHANGED <<priorities, reqs>>

-----------------------------------------------------------------------------
(* Check-in entries: app/services/user_daily_log.py, add_checkin_entry and                  *)
(* update_checkin_entry.  A check-in field is a JSON object from timestamp strings to       *)
(* values.                                                                                   *)

ErrEntryExists == "ValueError: Entry with timestamp already exists. Use update instead."
ErrTimestampNotFound == "ValueError: Timestamp not found. Use add instead."

\* datetime.isoformat() of the datetimes of one day, told apart by their hour
isoformat(timestamp) ==
    CASE timestamp.hour = 1 -> "2024-01-01T01:00:00"
      [] timestamp.hour = 2 -> "2024-01-01T02:00:00"
      [] timestamp.hour = 3 -> "2024-01-01T03:00:00"
      [] OTHER -> "2024-01-01T04:00:00"

\* current_field_data[timestamp_str] = value
SetKey(data, key, value) == [k \in DOMAIN data \cup {key} |-> IF k = key THEN value ELSE data[k]]

\* add_checkin_entry that writes without the test of lines 246-249
add_checkin_overwriting(db, user_id, log_date, field, timestamp, value, id) ==
    LET db1 == get_or_create_daily_log(db, user_id, log_date, id)
        timestamp_str == isoformat(timestamp)
        current_field_data == db1.checkins[id][field]
    IN  [db |-> [db1 EXCEPT !.checkins[id][field] = SetKey(current_field_data, timestamp_str, value)],
         error |-> Ok]

\* add_checkin_entry: the tables after the call and the exception it ends with
add_checkin_entry(db, user_id, log_date, field, timestamp, value, id) ==
    LET db1 == get_or_create_daily_log(db, user_id, log_date, id)
        timestamp_str == isoformat(timestamp)
        current_field_data == db1.checkins[id][field]
    IN  IF timestamp_str \in DOMAIN current_field_data
          THEN [db |-> db1, error |-> ErrEntryExists]
          ELSE [db |-> [db1 EXCEPT !.checkins[id][field] =
                          SetKey(current_field_data, timestamp_str, value)],
                error |-> Ok]

\* update_checkin_entry that stores the value before it tests the timestamp
update_checkin_writing(db, user_id, log_date, field, timestamp, value, id) ==
    LET db1 == get_or_create_daily_log(db, user_id, log_date, id)
        timestamp_str == isoformat(timestamp)
        current_field_data == db1.checkins[id][field]
    IN  [db |-> [db1 EXCEPT !.checkins[id][field] =
                    SetKey(current_field_data, timestamp_str, value)],
         error |-> IF timestamp_str \in DOMAIN current_field_data
                     THEN Ok ELSE ErrTimestampNotFound]

\* update_checkin_entry
update_checkin_entry(db, user_id, log_date, field, timestamp, value, id) ==
    LET db1 == get_or_create_daily_log(db, user_id, log_date, id)
        timestamp_str == isoformat(timestamp)
        current_field_data == db1.checkins[id][field]
    IN  IF timestamp_str \notin DOMAIN current_field_data
          THEN [db |-> db1, error |-> ErrTimestampNotFound]
          ELSE [db |-> [db1 EXCEPT !.checkins[id][field] =
                          SetKey(current_field_data, timestamp_str, value)],
                error |-> Ok]

AddCheckinEntry(user, date, field, timestamp, value) ==
    \E id \in LogIds(DB, user, date) :
        Finish("add_checkin", user, date,
               [field |-> field, timestamp |-> timestamp, value |-> value], id,
               add_checkin_entry(DB, user, date, field, timestamp, value, id))

UpdateCheckinEntry(user, date, field, timestamp, value) ==
    \E id \in LogIds(DB, user, date) :
        Finish("update_checkin", user, date,
               [field |-> field, timestamp |-> timestamp, value |-> value], id,
               update_checkin_entry(DB, user, date, field, timestamp, value, id))

-----------------------------------------------------------------------------
(* Journal entries: app/crud/user_daily_log.py, add_journal_entry, update_journal_entry and *)
(* delete_journal_entry, called by the services of the same names after                     *)
(* get_or_create_daily_log.  The journal of a day is a JSON object from timestamp strings   *)
(* to [entry_type, content, sentiment, topics].                                              *)

ErrJournalNotFound == "ValueError: Journal not found"
ErrEntryAlreadyExists == "ValueError: Entry already exists at timestamp"
ErrEntryNotFound == "ValueError: Entry not found at timestamp"

\* delete_journal_entry returning False
ReturnedFalse == "False"

\* get_journal: whether the journal row of the log exists
get_journal(db, log_id) == log_id \in DOMAIN db.journals /\ Exists(db, log_id)

\* del current_journal[timestamp_str]
DelKey(data, key) == [k \in DOMAIN data \ {key} |-> data[k]]

\* crud add_journal_entry
add_journal_entry(db, log_id, timestamp, entry_type, content, sentiment, topics) ==
    IF ~get_journal(db, log_id) THEN [db |-> db, error |-> ErrJournalNotFound]
    ELSE LET timestamp_str == isoformat(timestamp)
             current_journal == db.journals[log_id]
         IN  IF timestamp_str \in DOMAIN current_journal
               THEN [db |-> db, error |-> ErrEntryAlreadyExists]
               ELSE [db |-> [db EXCEPT !.journals[log_id] =
                               SetKey(current_journal, timestamp_str,
                                      <<entry_type, content, sentiment,
                                        IF topics = None THEN <<>> ELSE topics>>)],
                     error |-> Ok]

\* crud update_journal_entry that stores its four arguments as they are
update_journal_replacing_all(db, log_id, timestamp, entry_type, content, sentiment, topics) ==
    IF ~get_journal(db, log_id) THEN [db |-> db, error |-> ErrJournalNotFound]
    ELSE LET timestamp_str == isoformat(timestamp)
             current_journal == db.journals[log_id]
         IN  IF timestamp_str \notin DOMAIN current_journal
               THEN [db |-> db, error |-> ErrEntryNotFound]
               ELSE [db |-> [db EXCEPT !.journals[log_id] =
                               SetKey(current_journal, timestamp_str,
                                      <<entry_type, content, sentiment, topics>>)],
                     error |-> Ok]

\* crud update_journal_entry
update_journal_entry(db, log_id, timestamp, entry_type, content, sentiment, topics) ==
    IF ~get_journal(db, log_id) THEN [db |-> db, error |-> ErrJournalNotFound]
    ELSE LET timestamp_str == isoformat(timestamp)
             current_journal == db.journals[log_id]
         IN  IF timestamp_str \notin DOMAIN current_journal
               THEN [db |-> db, error |-> ErrEntryNotFound]
               ELSE LET existing == current_journal[timestamp_str]
                    IN  [db |-> [db EXCEPT !.journals[log_id] =
                                   SetKey(current_journal, timestamp_str,
                                          <<IF entry_type # None THEN entry_type ELSE existing[1],
                                            IF content # None THEN content ELSE existing[2],
                                            IF sentiment # None THEN sentiment ELSE existing[3],
                                            IF topics # None THEN topics ELSE existing[4]>>)],
                         error |-> Ok]

\* crud delete_journal_entry
delete_journal_entry(db, log_id, timestamp) ==
    IF ~get_journal(db, log_id) THEN [db |-> db, error |-> ReturnedFalse]
    ELSE LET timestamp_str == isoformat(timestamp)
             current_journal == db.journals[log_id]
         IN  IF timestamp_str \notin DOMAIN current_journal
               THEN [db |-> db, error |-> ReturnedFalse]
               ELSE [db |-> [db EXCEPT !.journals[log_id] = DelKey(current_journal, timestamp_str)],
                     error |-> Ok]

\* UserDailyLogService.add_journal_entry
AddJournalEntry(user, date, timestamp, e) ==
    \E id \in LogIds(DB, user, date) :
        Finish("add_journal", user, date, [e EXCEPT !.timestamp = timestamp], id,
               add_journal_entry(get_or_create_daily_log(DB, user, date, id), id, timestamp,
                                 e.entry_type, e.content, e.sentiment, e.topics))

\* UserDailyLogService.update_journal_entry
UpdateJournalEntry(user, date, timestamp, e) ==
    \E id \in LogIds(DB, user, date) :
        Finish("update_journal", user, date, [e EXCEPT !.timestamp = timestamp], id,
               update_journal_entry(get_or_create_daily_log(DB, user, date, id), id, timestamp,
                                    e.entry_type, e.content, e.sentiment, e.topics))

\* UserDailyLogService.delete_journal_entry
DeleteJournalEntry(user, date, timestamp) ==
    \E id \in LogIds(DB, user, date) :
        Finish("delete_journal", user, date, [timestamp |-> timestamp], id,
               delete_journal_entry(get_or_create_daily_log(DB, user, date, id), id, timestamp))

-----------------------------------------------------------------------------
(* Deleting a daily log: app/crud/user_daily_log.py, delete_by_id and delete_by_date, over  *)
(* the relationships of app/models/user_daily_logs.py (cascade="all, delete-orphan").       *)

\* db.delete(db_obj) of a mapping without the cascade: the log row alone goes
delete_log_row_only(db, id) ==
    [db EXCEPT !.logs = {l \in db.logs : l.id # id}]

\* db.delete(db_obj): the unit of work deletes the row and, through the four relationships,
\* the child rows that carry its id
delete_log(db, id) ==
    [db EXCEPT !.logs = {l \in db.logs : l.id # id},
               !.trackers = DelKey(db.trackers, id),
               !.checkins = DelKey(db.checkins, id),
               !.journals = DelKey(db.journals, id),
               !.chatbots = DelKey(db.chatbots, id)]

\* get_by_id
get_by_id(db, log_id) == {l \in db.logs : l.id = log_id}

\* delete_by_id: the tables after the call, and Ok for True
delete_by_id(db, log_id) ==
    IF get_by_id(db, log_id) # {}
      THEN [db |-> delete_log(db, log_id), error |-> Ok]
      ELSE [db |-> db, error |-> ReturnedFalse]

\* delete_by_date on the row id that first() returns, if there is one
delete_by_date(db, user_id, day, id) ==
    IF get_by_user_and_date(db, user_id, day) # {}
      THEN [db |-> delete_log(db, id), error |-> Ok]
      ELSE [db |-> db, error |-> ReturnedFalse]

DeleteById(log_id) ==
    Finish("delete_by_id", "", NoDate, log_id, log_id, delete_by_id(DB, log_id))

DeleteByDate(user, date) ==
    \E id \in LogIds(DB, user, date) :
        Finish("delete_by_date", user, date, id, id, delete_by_date(DB, user, date, id))

-----------------------------------------------------------------------------
(* get_or_create_daily_log as two steps of one request: the SELECT of lines 82-84, then the   *)
(* rest of the call.  Every request has its own session (get_db), and nothing orders the     *)
(* SELECT of one request against the INSERT of another.                                       *)

Idle == [pc |-> "idle", user |-> "", date |-> NoDate, daily_log |-> 0]

\* lines 82-84: the SELECT; daily_log is the id of the row first() returns, 0 for None
GocSelect(proc, user, date) ==
    /\ reqs[proc].pc = "idle"
    /\ Cardinality(logs) < MaxLogs
    /\ \E id \in LogIds(DB, user, date) :
        reqs' = [reqs EXCEPT ![proc] =
            [pc |-> "selected", user |-> user, date |-> date,
             daily_log |-> IF Exists(DB, id) THEN id ELSE 0]]
    /\ UNCHANGED <<priorities, logs, trackers, checkins, journals, chatbots, nextId, last>>

\* lines 86-131: return the row found, or build the activities and insert a new row
GocReturn(proc) ==
    /\ reqs[proc].pc = "selected"
    /\ LET user == reqs[proc].user
           date == reqs[proc].date
           daily_log == reqs[proc].daily_log
       IN  /\ IF daily_log # 0
                THEN UNCHANGED <<logs, trackers, checkins, journals, chatbots, nextId>>
                ELSE Commit(get_or_create_daily_log(DB, user, date, nextId + 1))
           /\ last' = Call("get_or_create", user, date, 0,
                           IF daily_log # 0 THEN Lifecycle(DB, daily_log) ELSE "Absent",
                           Ok, 0, 0)
    /\ reqs' = [reqs EXCEPT ![proc] = Idle]
    /\ UNCHANGED priorities

-----------------------------------------------------------------------------
(* update_activity_complete and increment_activity_complete as two steps of one request:    *)
(* the SELECT of the tracker row into the request's session, then the write of the list the *)
(* session changed (flag_modified names one column) and the commit.  The SELECT takes no    *)
(* lock (no with_for_update) and the row carries no version counter.                        *)

\* get_activities_by_date of lines 609 and 646 on a row whose tracker has activities: the
\* session holds the tracker as the SELECT returned it
MutSelect(proc, user, date, op, activity_name, value) ==
    /\ reqs[proc].pc = "idle"
    /\ \E id \in LogIds(DB, user, date) :
        /\ Exists(DB, id)
        /\ has_activities(trackers[id])
        /\ reqs' = [reqs EXCEPT ![proc] =
                [pc |-> "read", user |-> user, date |-> date, daily_log |-> id, op |-> op,
                 activity_name |-> activity_name, value |-> value, tracker |-> trackers[id]]]
    /\ UNCHANGED <<priorities, logs, trackers, checkins, journals, chatbots, nextId, last>>

\* the rest of the call: find the activity in the session's copy, set its complete value,
\* write the one list that holds it and commit; the request is over
MutCommit(proc) ==
    /\ reqs[proc].pc = "read"
    /\ LET r == reqs[proc]
           loc == find_activity_in_tracker(r.tracker, r.activity_name, NoCategory)
           current == r.tracker[loc.field_name][loc.idx].configuration.complete
           new_value == IF r.op = "increment_complete" THEN NewValue(current, r.value)
                        ELSE r.value
       IN  IF ~loc.found
             THEN /\ UNCHANGED trackers
                  /\ last' = Call(r.op, r.user, r.date, r.value, "Populated",
                                  ErrActivityNotFound, 0, 0)
             ELSE /\ trackers' = [trackers EXCEPT ![r.daily_log][loc.field_name] =
                        SetComplete(r.tracker, loc.field_name, loc.idx, new_value)[loc.field_name]]
                  /\ last' = Call(r.op, r.user, r.date, r.value, "Populated", Ok, 0, 0)
    /\ reqs' = [reqs EXCEPT ![proc].pc = "done"]
    /\ UNCHANGED <<priorities, logs, checkins, journals, chatbots, nextId>>

-----------------------------------------------------------------------------
(* The auto-initialization of a mutation as steps of one request. update_activity_complete
   and increment_activity_complete read the tracker (lines 609, 646); when it has no
   activities they call initialize_daily_activities, which reads the tracker again (line
   499), builds the lists from the catalog and has populate_activities_from_priorities
   write the four columns and commit (crud lines 186-199). No statement takes a lock and
   the UPDATE carries no condition on what the columns hold. *)

\* lines 609-612 on a row whose tracker has no activities
MutSelectEmpty(proc, user, date, op, activity_name, value) ==
    /\ reqs[proc].pc = "idle"
    /\ \E id \in LogIds(DB, user, date) :
        /\ Exists(DB, id)
        /\ ~has_activities(trackers[id])
        /\ reqs' = [reqs EXCEPT ![proc] =
                [pc |-> "empty", user |-> user, date |-> date, daily_log |-> id, op |-> op,
                 activity_name |-> activity_name, value |-> value, tracker |-> trackers[id]]]
    /\ UNCHANGED <<priorities, logs, trackers, checkins, journals, chatbots, nextId, last>>

\* initialize_daily_activities, lines 494-510: the query for the tracker returns the object
\* the session holds; its lists are the ones read before or, when the session has expired
\* them, the row's. A tracker with activities is returned as it is.
InitCheck(proc) ==
    /\ reqs[proc].pc = "empty"
    /\ \E existing \in {reqs[proc].tracker, trackers[reqs[proc].daily_log]} :
        reqs' = [reqs EXCEPT ![proc] =
                    IF AlreadyPopulated(existing)
                      THEN [@ EXCEPT !.pc = "read", !.tracker = existing]
                      ELSE [@ EXCEPT !.pc = "populate"]]
    /\ UNCHANGED <<priorities, logs, trackers, checkins, journals, chatbots, nextId, last>>

\* lines 512-539: the catalog is read, the four columns are written and committed; the
\* session holds the tracker as refreshed. Without a catalog the call ends in an error.
InitPopulate(proc) ==
    /\ reqs[proc].pc = "populate"
    /\ LET r == reqs[proc]
       IN  IF r.user \notin DOMAIN priorities
             THEN /\ UNCHANGED trackers
                  /\ last' = Call(r.op, r.user, r.date, r.value, "Empty", ErrNoPriorities, 0, 0)
                  /\ reqs' = [reqs EXCEPT ![proc].pc = "done"]
             ELSE LET t == populate_activities_from_priorities(
                               trackers[r.daily_log],
                               ActivitiesDict(get_all_activities(priorities[r.user])))
                  IN  /\ trackers' = [trackers EXCEPT ![r.daily_log] = t]
                      /\ last' = Call("populate", r.user, r.date, r.value, "Empty", Ok, 0, 0)
                      /\ reqs' = [reqs EXCEPT ![proc].pc = "read", ![proc].tracker = t]
    /\ UNCHANGED <<priorities, logs, checkins, journals, chatbots, nextId>>

-----------------------------------------------------------------------------
(* create_priorities as two steps of one request: the SELECT of exists(), then the INSERT    *)
(* and commit of crud create.  user_priorities.id is the primary key and is the user's id   *)
(* (app/models/user_priorities.py).                                                         *)

\* lines 79-80: exists()
CreateExists(proc, user, data) ==
    /\ reqs[proc].pc = "idle"
    /\ reqs' = [reqs EXCEPT ![proc] =
            [pc |-> "checked", user |-> user, date |-> NoDate, daily_log |-> 0,
             exists |-> user \in DOMAIN priorities, data |-> data]]
    /\ UNCHANGED <<priorities, logs, trackers, checkins, journals, chatbots, nextId, last>>

\* lines 80-84: raise PrioritiesAlreadyExistError, or INSERT and commit; the commit of a
\* second row with the same id raises IntegrityError
CreateInsert(proc) ==
    /\ reqs[proc].pc = "checked"
    /\ LET user == reqs[proc].user
       IN  IF reqs[proc].exists
             THEN /\ UNCHANGED priorities
                  /\ Done("create_priorities", user, NoDate, ErrPrioritiesExist)
           ELSE IF user \in DOMAIN priorities
             THEN /\ UNCHANGED priorities
                  /\ Done("create_priorities", user, NoDate, ErrIntegrity)
             ELSE /\ priorities' = priorities @@ (user :> reqs[proc].data)
                  /\ Done("create_priorities", user, NoDate, Ok)
    /\ reqs' = [reqs EXCEPT ![proc] = Idle]
    /\ UNCHANGED <<logs, trackers, checkins, journals, chatbots, nextId>>

-----------------------------------------------------------------------------
(* Aggregation: get_activity_progress_summary of app/services/user_daily_log.py *)

\* the summary of a day that has no tracker
NoSummary ==
    [total |-> 0, completed |-> 0, in_progress |-> 0, not_started |-> 0, completion_rate |-> 0]

\* round(num / den * 100, 2) in hundredths of a percent: the nearest hundredth, the even one
\* when two are equally near
round_rate(num, den) ==
    LET q == (num * 10000) \div den
        r == (num * 10000) % den
    IN  IF 2 * r > den THEN q + 1
        ELSE IF 2 * r < den THEN q
        ELSE IF q % 2 = 0 THEN q ELSE q + 1

\* field_names that holds the coping lists as well
summary_fields_with_coping == FieldNames

\* field_names of get_activity_progress_summary
summary_field_names ==
    <<"health_activity", "work_activity", "growth_activity", "relationship_activity">>

\* the inner loop: one activity added to the counts
count_activity(counts, activity) ==
    LET complete == activity.configuration.complete
        quota == activity.configuration.quota.value
    IN  IF complete = 0
          THEN [counts EXCEPT !.total = @ + 1, !.not_started = @ + 1]
        ELSE IF quota > 0 /\ complete >= quota
          THEN [counts EXCEPT !.total = @ + 1, !.completed = @ + 1]
        ELSE [counts EXCEPT !.total = @ + 1, !.in_progress = @ + 1]

RECURSIVE count_list(_, _)
count_list(counts, activity_list) ==
    IF activity_list = <<>> THEN counts
    ELSE count_list(count_activity(counts, Head(activity_list)), Tail(activity_list))

\* the outer loop over field_names
RECURSIVE count_fields(_, _, _)
count_fields(counts, tracker, field_names) ==
    IF field_names = <<>> THEN counts
    ELSE count_fields(count_list(counts, tracker[Head(field_names)]), tracker, Tail(field_names))

\* get_activity_progress_summary for the tracker of the day; completion_rate is in hundredths
\* of a percent
progress_summary(tracker) ==
    LET c == count_fields(NoSummary, tracker, summary_field_names)
    IN  [c EXCEPT !.completion_rate =
            IF c.total > 0 THEN round_rate(c.completed, c.total) ELSE 0]

\* the call: the summary is what the caller receives, nothing is written
GetActivityProgressSummary(user, date) ==
    /\ \/ /\ get_by_user_and_date(DB, user, date) = {}
          /\ last' = Call("progress_summary", user, date, NoSummary, "", Ok, 0, 0)
       \/ \E l \in get_by_user_and_date(DB, user, date) :
            last' = Call("progress_summary", user, date, progress_summary(trackers[l.id]),
                         "", Ok, 0, 0)
    /\ UNCHANGED <<priorities, logs, trackers, checkins, journals, chatbots, nextId, reqs>>

-----------------------------------------------------------------------------
(* Aggregation: get_activity_streak, the service's (the one the router calls) and the crud's.
   A date is the number of its day; date.today() is Today throughout a behaviour. *)

\* the longest window a streak is asked for
MaxDays == 2

Today == MaxDays

NoStreak == [current_streak |-> 0, longest_streak |-> 0, temp_streak |-> 0]

\* (quota > 0 and complete >= quota) or (quota == 0 and complete > 0)
met_goal(activity) ==
    LET complete == activity.configuration.complete
        quota == activity.configuration.quota.value
    IN  \/ quota > 0 /\ complete >= quota
        \/ quota = 0 /\ complete > 0

\* service get_activity_by_name followed by the met_goal test: FALSE when the day has no row
\* or the tracker does not hold the name in the fields _find_activity_in_tracker scans
day_met_goal(db, user_id, check_date, activity_name, category) ==
    LET rows == get_by_user_and_date(db, user_id, check_date)
    IN  /\ rows # {}
        /\ LET tracker == db.trackers[(CHOOSE l \in rows : TRUE).id]
               loc == find_activity_in_tracker(tracker, activity_name, category)
           IN  loc.found /\ met_goal(tracker[loc.field_name][loc.idx])

\* one pass of the service's loop, for day i before today
streak_step(s, i, met) ==
    IF met
      THEN [current_streak |-> IF i = s.current_streak THEN s.current_streak + 1
                               ELSE s.current_streak,
            longest_streak |-> IF s.temp_streak + 1 > s.longest_streak THEN s.temp_streak + 1
                               ELSE s.longest_streak,
            temp_streak |-> s.temp_streak + 1]
      ELSE [s EXCEPT !.temp_streak = 0]

\* for i in range(days_to_check), from pass i on
RECURSIVE streak_loop(_, _, _, _, _, _, _)
streak_loop(db, user_id, activity_name, category, days_to_check, i, s) ==
    IF i >= days_to_check THEN s
    ELSE streak_loop(db, user_id, activity_name, category, days_to_check, i + 1,
                     streak_step(s, i, day_met_goal(db, user_id, Today - i, activity_name,
                                                    category)))

\* service get_activity_streak
get_activity_streak(db, user_id, activity_name, category, days_to_check) ==
    LET s == streak_loop(db, user_id, activity_name, category, days_to_check, 0, NoStreak)
    IN  [activity_name |-> activity_name, category |-> category,
         current_streak |-> s.current_streak, longest_streak |-> s.longest_streak,
         days_checked |-> days_to_check]

\* crud: the lists the loop over categories_to_check reads
crud_streak_fields(category) ==
    IF category # NoCategory THEN category_map(category)
    ELSE <<"health_activity", "work_activity", "growth_activity", "relationship_activity">>

\* crud: activity_completed for one tracker
activity_completed(tracker, activity_name, category) ==
    LET field_names == crud_streak_fields(category)
    IN  \E k \in DOMAIN field_names : \E i \in DOMAIN tracker[field_names[k]] :
            /\ tracker[field_names[k]][i].name = activity_name
            /\ met_goal(tracker[field_names[k]][i])

\* crud: the last lines of one pass of the loop over the rows
crud_streak_step(s, completed) ==
    IF completed
      THEN [s EXCEPT !.temp_streak = @ + 1,
                     !.longest_streak = IF s.temp_streak + 1 > @ THEN s.temp_streak + 1 ELSE @]
      ELSE [s EXCEPT !.current_streak = IF @ = 0 THEN s.temp_streak ELSE @,
                     !.temp_streak = 0]

\* crud: for log in reversed(logs), from the row of day on; logs holds the rows of the user
\* dated start_date..end_date, and a day without a row has no pass. Every row has its
\* tracker (they are inserted and deleted together), so `if not activities` never holds
RECURSIVE crud_streak_loop(_, _, _, _, _, _, _)
crud_streak_loop(db, user_id, activity_name, category, start_date, day, s) ==
    IF day < start_date THEN s
    ELSE LET rows == get_by_user_and_date(db, user_id, day)
         IN  IF rows = {}
               THEN crud_streak_loop(db, user_id, activity_name, category, start_date,
                                     day - 1, s)
             ELSE crud_streak_loop(
                      db, user_id, activity_name, category, start_date, day - 1,
                      crud_streak_step(s, activity_completed(
                          db.trackers[(CHOOSE l \in rows : TRUE).id], activity_name, category)))

\* crud get_activity_streak
crud_get_activity_streak(db, user_id, activity_name, category, days_to_check) ==
    LET end_date == Today
        start_date == end_date - days_to_check
        s == crud_streak_loop(db, user_id, activity_name, category, start_date, end_date,
                              NoStreak)
    IN  [activity_name |-> activity_name, category |-> category,
         current_streak |-> IF s.current_streak = 0 THEN s.temp_streak ELSE s.current_streak,
         longest_streak |-> s.longest_streak,
         days_checked |-> days_to_check]

ReadOnly == UNCHANGED <<priorities, logs, trackers, checkins, journals, chatbots, nextId, reqs>>

GetActivityStreak(user, activity_name, category, days_to_check) ==
    /\ last' = Call("activity_streak", user, NoDate,
                    get_activity_streak(DB, user, activity_name, category, days_to_check),
                    "", Ok, 0, 0)
    /\ ReadOnly

CrudGetActivityStreak(user, activity_name, category, days_to_check) ==
    /\ last' = Call("crud_activity_streak", user, NoDate,
                    crud_get_activity_streak(DB, user, activity_name, category, days_to_check),
                    "", Ok, 0, 0)
    /\ ReadOnly

-----------------------------------------------------------------------------
(* The read operations of app/services/user_daily_log.py. A read is given the session it
   runs in and the id LogIds draws for its day; what it leaves in the session is committed
   like the tables of any other call. *)

\* a lookup for the tracker that initializes the day first, as the mutations do
get_activities_initializing(db, user_id, log_date, id) ==
    AutoInitialize(db, user_id, log_date, id).db

\* get_activities_by_date: the session after its two SELECTs
get_activities_by_date(db, user_id, log_date, id) == db

\* get_activity_by_name: found = FALSE stands for None
get_activity_by_name(db, user_id, log_date, activity_name, category, id) ==
    IF ~Exists(db, id) THEN [found |-> FALSE]
    ELSE LET tracker == db.trackers[id]
             loc == find_activity_in_tracker(tracker, activity_name, category)
         IN  IF loc.found THEN [found |-> TRUE, activity |-> tracker[loc.field_name][loc.idx]]
             ELSE [found |-> FALSE]

\* the percentage without the cap at 100
completion_unclamped(complete, quota) ==
    IF quota = 0 THEN 0 ELSE round_rate(complete, quota)

\* the last lines of get_completion_percentage, in hundredths of a percent:
\* 0.0 for quota 0, else min(round(complete / quota * 100, 2), 100.0)
completion_percentage(complete, quota) ==
    IF quota = 0 THEN 0
    ELSE LET percentage == round_rate(complete, quota)
         IN  IF percentage < 10000 THEN percentage ELSE 10000

\* get_completion_percentage: found = FALSE stands for None
get_completion_percentage(db, user_id, log_date, activity_name, category, id) ==
    LET a == get_activity_by_name(db, user_id, log_date, activity_name, category, id)
    IN  IF ~a.found THEN [found |-> FALSE]
        ELSE [found |-> TRUE,
              percentage |-> completion_percentage(a.activity.configuration.complete,
                                                   a.activity.configuration.quota.value)]

\* generate_daily_summary: the parts of the string; data = FALSE stands for "No data
\* available for this date.", checkin for the test that a check-in field has an entry
generate_daily_summary(db, user_id, log_date, id) ==
    IF ~Exists(db, id) THEN [data |-> FALSE]
    ELSE [data |-> TRUE,
          checkin |-> \E f \in DOMAIN db.checkins[id] : DOMAIN db.checkins[id][f] # {},
          progress |-> progress_summary(db.trackers[id]),
          journal_count |-> Cardinality(DOMAIN db.journals[id]),
          chat_count |-> Len(db.chatbots[id])]

\* what a read leaves behind: the session's tables and the value the caller receives
Read(op, user, date, value, db) ==
    /\ Commit(db)
    /\ last' = Call(op, user, date, value, "", Ok, 0, 0)
    /\ UNCHANGED <<priorities, reqs>>

GetActivitiesByDate(user, date) ==
    \E id \in LogIds(DB, user, date) :
        LET db == get_activities_by_date(DB, user, date, id)
        IN  Read("get_activities_by_date", user, date, Exists(db, id), db)

GetActivityByName(user, date, activity_name, category) ==
    \E id \in LogIds(DB, user, date) :
        LET db == get_activities_by_date(DB, user, date, id)
        IN  Read("get_activity_by_name", user, date,
                 get_activity_by_name(db, user, date, activity_name, category, id), db)

GetCompletionPercentage(user, date, activity_name, category) ==
    \E id \in LogIds(DB, user, date) :
        LET db == get_activities_by_date(DB, user, date, id)
        IN  Read("completion_percentage", user, date,
                 get_completion_percentage(db, user, date, activity_name, category, id), db)

GenerateDailySummary(user, date) ==
    \E id \in LogIds(DB, user, date) :
        LET db == get_activities_by_date(DB, user, date, id)
        IN  Read("generate_daily_summary", user, date,
                 generate_daily_summary(db, user, date, id), db)

\* get_all_user_activities of the priorities service: the four lists of the catalog
GetAllUserActivities(user) ==
    /\ last' = Call("get_all_activities", user, NoDate,
                    IF user \in DOMAIN priorities
                      THEN [found |-> TRUE, activities |-> get_all_activities(priorities[user])]
                      ELSE [found |-> FALSE],
                    "", IF user \in DOMAIN priorities THEN Ok ELSE ErrPrioritiesNotFound, 0, 0)
    /\ ReadOnly

-----------------------------------------------------------------------------
(* The chatbot conversation of a day: app/crud/user_daily_log.py, add_chatbot_message,
   delete_chatbot_message and clear_chatbot_conversation, under the service calls that fetch
   or create the day's log first *)

ErrChatbotNotFound == "Chatbot log not found"

\* get_chatbot_log: whether the chatbot row of the log exists
get_chatbot_log(db, log_id) == log_id \in DOMAIN db.chatbots /\ Exists(db, log_id)

\* current_conversation.pop(message_index) for 0 <= message_index < len
Pop(conversation, message_index) ==
    SubSeq(conversation, 1, message_index) \o
    SubSeq(conversation, message_index + 2, Len(conversation))

\* crud add_chatbot_message
add_chatbot_message(db, log_id, message) ==
    IF ~get_chatbot_log(db, log_id) THEN [db |-> db, error |-> ErrChatbotNotFound]
    ELSE [db |-> [db EXCEPT !.chatbots[log_id] = Append(@, message)], error |-> Ok]

\* delete_chatbot_message that pops the last message whatever the index is
delete_chatbot_last(db, log_id, message_index) ==
    IF ~get_chatbot_log(db, log_id) \/ db.chatbots[log_id] = <<>>
      THEN [db |-> db, error |-> ReturnedFalse]
    ELSE IF message_index < 0 \/ message_index >= Len(db.chatbots[log_id])
      THEN [db |-> db, error |-> ReturnedFalse]
    ELSE [db |-> [db EXCEPT !.chatbots[log_id] = Pop(@, Len(@) - 1)], error |-> Ok]

\* crud delete_chatbot_message: ReturnedFalse for False, Ok for True
delete_chatbot_message(db, log_id, message_index) ==
    IF ~get_chatbot_log(db, log_id) \/ db.chatbots[log_id] = <<>>
      THEN [db |-> db, error |-> ReturnedFalse]
    ELSE IF message_index < 0 \/ message_index >= Len(db.chatbots[log_id])
      THEN [db |-> db, error |-> ReturnedFalse]
    ELSE [db |-> [db EXCEPT !.chatbots[log_id] = Pop(@, message_index)], error |-> Ok]

\* crud clear_chatbot_conversation
clear_chatbot_conversation(db, log_id) ==
    IF ~get_chatbot_log(db, log_id) THEN [db |-> db, error |-> ReturnedFalse]
    ELSE [db |-> [db EXCEPT !.chatbots[log_id] = <<>>], error |-> Ok]

\* UserDailyLogService.add_chatbot_message; timestamp is what datetime.now gives the call
AddChatbotMessage(user, date, role, content, timestamp) ==
    \E id \in LogIds(DB, user, date) :
        LET message == [role |-> role, content |-> content, timestamp |-> isoformat(timestamp)]
        IN  Finish("add_chatbot", user, date, message, id,
                   add_chatbot_message(get_or_create_daily_log(DB, user, date, id), id, message))

\* UserDailyLogService.delete_chatbot_message
DeleteChatbotMessage(user, date, message_index) ==
    \E id \in LogIds(DB, user, date) :
        Finish("delete_chatbot", user, date, message_index, id,
               delete_chatbot_message(get_or_create_daily_log(DB, user, date, id), id,
                                      message_index))

\* UserDailyLogService.clear_chatbot_conversation
ClearChatbotConversation(user, date) ==
    \E id \in LogIds(DB, user, date) :
        Finish("clear_chatbot", user, date, 0, id,
               clear_chatbot_conversation(get_or_create_daily_log(DB, user, date, id), id))

-----------------------------------------------------------------------------
(* add_user_activity as two steps of one request: the SELECT of get_by_user_id, then the    *)
(* duplicate check on the list that SELECT returned, the append and the commit, which       *)
(* writes the pillar's whole column.                                                        *)

\* services/user_priorities.py lines 292-294: get_by_user_id, or PrioritiesNotFoundError
AddSelect(proc, user, req) ==
    /\ reqs[proc].pc = "idle"
    /\ IF user \notin DOMAIN priorities
         THEN /\ UNCHANGED reqs
              /\ Done("add_activity", user, NoDate, ErrPrioritiesNotFound)
         ELSE /\ reqs' = [reqs EXCEPT ![proc] =
                    [pc |-> "adding", user |-> user, date |-> NoDate, daily_log |-> 0,
                     req |-> req,
                     existing_activities |-> priorities[user][ColumnName(req.pillar)]]]
              /\ UNCHANGED last
    /\ UNCHANGED <<priorities, logs, trackers, checkins, journals, chatbots, nextId>>

\* lines 296-322 and crud add_activity_to_pillar: the unit's validation, the duplicate check
\* on the session's list, setattr of the appended list, commit
AddCommit(proc) ==
    /\ reqs[proc].pc = "adding"
    /\ LET user == reqs[proc].user
           req == reqs[proc].req
       IN  IF req.unit \notin DIMENSION_UNITS[req.dimension]
             THEN /\ UNCHANGED priorities
                  /\ Done("add_activity", user, NoDate, ErrInvalidUnit)
             ELSE LET activity == CompleteActivity(req.name, req.description, req.pillar,
                                                   req.dimension, req.complete, req.unit,
                                                   req.quota_value, req.reset_frequency)
                      r == add_activity_to_pillar(reqs[proc].existing_activities, activity)
                  IN  /\ priorities' =
                            IF r.error = Ok /\ user \in DOMAIN priorities
                              THEN [priorities EXCEPT ![user][ColumnName(req.pillar)] = r.activities]
                              ELSE priorities
                      /\ Done("add_activity", user, NoDate, r.error)
    /\ reqs' = [reqs EXCEPT ![proc] = Idle]
    /\ UNCHANGED <<logs, trackers, checkins, journals, chatbots, nextId>>

-----------------------------------------------------------------------------
(* Inputs *)

\* an AddActivityRequest
Request(name, pillar, complete) ==
    [name |-> name, description |-> "d", pillar |-> pillar, dimension |-> "distance",
     complete |-> complete, unit |-> "steps", quota_value |-> 2, reset_frequency |-> "daily"]

Build(req) ==
    CompleteActivity(req.name, req.description, req.pillar, req.dimension, req.complete,
                     req.unit, req.quota_value, req.reset_frequency)

\* the AddActivityRequests for the (name, pillar) pairs SL with complete drawn from CS
Requests(SL, CS) == {Request(sl[1], sl[2], c) : sl \in SL, c \in CS}

\* the lists of at most two activities a create or update request carries for one pillar
ListInputs(SL, CS, pillar) ==
    LET A == {Build(r) : r \in {q \in Requests(SL, CS) : q.pillar = pillar}}
    IN  {<<>>} \cup {<<a>> : a \in A} \cup {<<a, b>> : a \in A, b \in A}

\* the create requests: a list per column, at most max activities in all
CreateInputs(SL, CS, max) ==
    {data \in {[health_activities |-> h, work_activities |-> w,
                growth_activities |-> g, relationships_activities |-> r] :
                    h \in ListInputs(SL, CS, "health"),
                    w \in ListInputs(SL, CS, "work"),
                    g \in ListInputs(SL, CS, "growth"),
                    r \in ListInputs(SL, CS, "relationships")} :
        CatalogSize(data) <= max}

\* the update requests that set one column
UpdateInputs(SL, CS) ==
    UNION {{(ColumnName(p) :> l) : l \in ListInputs(SL, CS, p)} : p \in {sl[2] : sl \in SL}}

UpdateValues == -1..MaxComplete

Increments == {0 - MaxComplete - 1, -1, 1}

CategoryInputs == {NoCategory, BadCategory} \cup Categories

\* the items of a bulk update: three well-formed ones, an unknown activity, a negative value
\* and an item without a name
BulkItems ==
    {[name |-> "walk", complete |-> 1],
     [name |-> "read", complete |-> MaxComplete, category |-> "relationship"],
     [name |-> "swim", complete |-> 1],
     [name |-> "walk", complete |-> -1],
     [complete |-> 1]}

MaxBulk == 2

RECURSIVE SeqsUpTo(_, _)
SeqsUpTo(S, n) ==
    IF n = 0 THEN {<<>>}
    ELSE LET shorter == SeqsUpTo(S, n - 1)
         IN  shorter \cup {Append(q, x) : q \in shorter, x \in S}

\* the timestamps a check-in or journal request carries
MaxStamps == 2

Stamps == {[hour |-> h] : h \in 1..MaxStamps}

\* the check-in fields the requests of SpecCheckin name, and the values they carry
CheckinFields == {"mood", "sleep"}

CheckinValues == {"happy", "sad"}

\* a journal request: the timestamp is filled in by the action
JournalRequest(entry_type, content, sentiment, topics) ==
    [timestamp |-> None, entry_type |-> entry_type, content |-> content,
     sentiment |-> sentiment, topics |-> topics]

\* the add requests of SpecJournal: with the optional sentiment and topics left out, and
\* with all four components
JournalAdds ==
    {JournalRequest("text", "x", None, None),
     JournalRequest("voice", "y", "calm", <<"sleep">>)}

\* the update requests of SpecJournal: nothing provided, each component alone (topics also
\* as the empty list), and all four
JournalUpdates ==
    {JournalRequest(None, None, None, None),
     JournalRequest("voice", None, None, None),
     JournalRequest(None, "y", None, None),
     JournalRequest(None, None, "calm", None),
     JournalRequest(None, None, None, <<>>),
     JournalRequest(None, None, None, <<"sleep">>),
     JournalRequest("text", "x", "calm", <<>>)}

\* the guards that keep the model finite
CatalogBound(max) == \A u \in DOMAIN priorities : CatalogSize(priorities[u]) <= max

CompleteBound ==
    \A id \in DOMAIN trackers : \A f \in FieldSet : \A i \in DOMAIN trackers[id][f] :
        trackers[id][f][i].configuration.complete <= MaxComplete

-----------------------------------------------------------------------------
(* Specifications *)

Init ==
    /\ priorities = <<>>
    /\ logs = {}
    /\ trackers = <<>>
    /\ checkins = <<>>
    /\ journals = <<>>
    /\ chatbots = <<>>
    /\ nextId = 0
    /\ reqs = [p \in Procs |-> Idle]
    /\ last = Call("init", "", NoDate, 0, "", Ok, 0, 0)

\* the calls of the priorities router: users US, (name, pillar) pairs SL, catalog complete
\* values CS, catalogs of at most max activities
PrioritiesStep(US, SL, CS, max) ==
    \/ \E u \in US, data \in CreateInputs(SL, CS, max) :
        CreatePriorities(u, data) /\ CatalogBound(max)'
    \/ \E u \in US, upd \in UpdateInputs(SL, CS) :
        UpdateMyPriorities(u, upd) /\ CatalogBound(max)'
    \/ \E u \in US : DeletePriorities(u)
    \/ \E u \in US, r \in Requests(SL, CS) :
        /\ AddUserActivity(u, r.pillar, r.name, r.description, r.dimension, r.complete,
                           r.unit, r.quota_value, r.reset_frequency)
        /\ CatalogBound(max)'
    \/ \E u \in US, sl \in SL, c \in CS :
        UpdateUserActivity(u, sl[2], sl[1], [k \in {"complete"} |-> c])
    \/ \E u \in US, sl \in SL, c \in CS : UpdateActivityProgress(u, sl[2], sl[1], c)
    \/ \E u \in US, sl \in SL : RemoveUserActivity(u, sl[2], sl[1])
    \/ \E u \in US, rs \in SeqsUpTo(Requests(SL, CS), MaxBulk) :
        BulkAddUserActivities(u, rs) /\ CatalogBound(max)'

\* the calls of the daily-log router that touch the tracker: users US, dates DS, names NS,
\* category arguments CATS, bulk items ITEMS
TrackerStep(US, DS, NS, CATS, ITEMS) ==
    \/ \E u \in US, d \in DS : GetOrCreateDailyLog(u, d)
    \/ \E u \in US, d \in DS : InitializeDailyActivities(u, d)
    \/ \E u \in US, d \in DS, n \in NS, v \in UpdateValues, c \in CATS :
        UpdateActivityComplete(u, d, n, v, c)
    \/ \E u \in US, d \in DS, n \in NS, i \in Increments, c \in CATS :
        IncrementActivityComplete(u, d, n, i, c) /\ CompleteBound'
    \/ \E u \in US, d \in DS, n \in NS, c \in CATS : ResetActivity(u, d, n, c)
    \/ \E u \in US, d \in DS, c \in CATS \ {NoCategory} : ResetCategoryActivities(u, d, c)
    \/ \E u \in US, d \in DS : ResetAllActivities(u, d)
    \/ \E u \in US, d \in DS, ups \in SeqsUpTo(ITEMS, MaxBulk) : BulkUpdateActivities(u, d, ups)

\* one user, one day, an activity of the health pillar and one of the relationships pillar
Next ==
    \/ PrioritiesStep(Users, {<<"walk", "health">>, <<"read", "relationships">>}, {1},
                      MaxCatalog)
    \/ TrackerStep(Users, {"d1"}, Names, {NoCategory, "health", "relationship", BadCategory},
                   BulkItems)

Spec == Init /\ [][Next]_vars

\* the priorities router alone: one user, two names in two of the pillars, catalog complete
\* values 0 and 1
NextCatalog ==
    PrioritiesStep(Users, Names \X {"health", "relationships"}, {0, 1}, MaxCatalog)

SpecCatalog == Init /\ [][NextCatalog]_vars

\* one user, two days, one pillar, one activity name
NextDates ==
    \/ PrioritiesStep(Users, {<<"walk", "health">>}, {1}, MaxCatalog)
    \/ TrackerStep(Users, Dates, {"walk"}, {NoCategory, "health"},
                   {[name |-> "walk", complete |-> 1], [name |-> "swim", complete |-> 1],
                    [complete |-> 1]})

SpecDates == Init /\ [][NextDates]_vars

\* get_or_create_daily_log requests of two sessions, interleaved at the SELECT
NextConc ==
    \/ \E proc \in Procs, u \in Users, d \in Dates : GocSelect(proc, u, d)
    \/ \E proc \in Procs : GocReturn(proc)
    \/ \E u \in Users, data \in CreateInputs({<<"walk", "health">>}, {1}, MaxCatalog) : CreatePriorities(u, data)
    \/ \E u \in Users : DeletePriorities(u)

SpecConc == Init /\ [][NextConc]_vars

\* one request per session on the tracker of one day: updates and increments of two activities
\* of the health list, interleaved at the SELECT
NextRace ==
    \/ \E u \in Users, data \in CreateInputs({<<"walk", "health">>, <<"read", "health">>}, {1},
                                              MaxCatalog) : CreatePriorities(u, data)
    \/ \E u \in Users : GetOrCreateDailyLog(u, "d1")
    \/ \E proc \in Procs, u \in Users, op \in {"update_complete", "increment_complete"},
          n \in Names, v \in 1..MaxComplete : MutSelect(proc, u, "d1", op, n, v)
    \/ \E proc \in Procs : MutCommit(proc)

SpecRace == Init /\ [][NextRace]_vars

\* the items of the bulk updates of SpecBulk: two activities of the catalog, an unknown
\* activity, a negative value, an item without a name and one without a value
BulkCases ==
    {[name |-> "walk", complete |-> 1],
     [name |-> "read", complete |-> MaxComplete, category |-> "relationship"],
     [name |-> "swim", complete |-> 1],
     [name |-> "walk", complete |-> -1],
     [complete |-> 1],
     [name |-> "walk"]}

\* the bulk updates of SpecBulk: lists of up to MaxBulk + 1 items
BulkInputs == SeqsUpTo(BulkCases, MaxBulk + 1)

\* the catalog of SpecBulk: walk in health, read in relationships
BulkCatalog ==
    [health_activities |-> <<Build(Request("walk", "health", 1))>>,
     work_activities |-> <<>>,
     growth_activities |-> <<>>,
     relationships_activities |-> <<Build(Request("read", "relationships", 1))>>]

\* bulk updates on one day of one user, with and without a catalog
NextBulk ==
    \/ \E u \in Users : CreatePriorities(u, BulkCatalog)
    \/ \E u \in Users : DeletePriorities(u)
    \/ \E u \in Users : GetOrCreateDailyLog(u, "d1")
    \/ \E u \in Users : ResetAllActivities(u, "d1")
    \/ \E u \in Users, ups \in BulkInputs : BulkUpdateActivities(u, "d1", ups)

SpecBulk == Init /\ [][NextBulk]_vars

\* the pillar of the activities a tracker list holds
FieldPillar(field_name) ==
    CASE field_name \in {"health_activity", "health_coping"} -> "health"
      [] field_name \in {"work_activity", "productivity_coping"} -> "work"
      [] field_name \in {"growth_activity", "mindfulness_coping"} -> "growth"
      [] field_name \in {"relationship_activity", "relationship_coping"} -> "relationships"

\* the trackers create_with_activities stores when its caller passes activities (crud lines
\* 132-155): an activity called walk, complete = 0, in at most two of the eight lists
ScanTrackers ==
    {[f \in FieldSet |-> IF f \in S THEN <<Build(Request("walk", FieldPillar(f), 0))>> ELSE <<>>] :
        S \in {T \in SUBSET FieldSet : \E a, b \in FieldSet : T \subseteq {a, b}}}

\* one user with no catalog and one log row whose tracker is one of ScanTrackers
InitScan ==
    /\ priorities = <<>>
    /\ logs = {[id |-> 1, user_id |-> "u1", date |-> "d1"]}
    /\ trackers \in {[id \in {1} |-> t] : t \in ScanTrackers}
    /\ checkins = [id \in {1} |-> EmptyCheckin]
    /\ journals = [id \in {1} |-> EmptyJournal]
    /\ chatbots = [id \in {1} |-> EmptyConversation]
    /\ nextId = 1
    /\ reqs = [p \in Procs |-> Idle]
    /\ last = Call("init", "", NoDate, 0, "", Ok, 0, 0)

\* the tracker calls on that row, with every category argument
NextScan ==
    TrackerStep(Users, {"d1"}, {"walk"}, CategoryInputs, {[name |-> "walk", complete |-> 1]})

SpecScan == InitScan /\ [][NextScan]_vars

\* the check-in entries of one day of one user
NextCheckin ==
    \/ \E u \in Users : GetOrCreateDailyLog(u, "d1")
    \/ \E u \in Users, f \in CheckinFields, t \in Stamps, v \in CheckinValues :
        AddCheckinEntry(u, "d1", f, t, v)
    \/ \E u \in Users, f \in CheckinFields, t \in Stamps, v \in CheckinValues :
        UpdateCheckinEntry(u, "d1", f, t, v)

SpecCheckin == Init /\ [][NextCheckin]_vars

\* the journal of one day of one user
NextJournal ==
    \/ \E u \in Users : GetOrCreateDailyLog(u, "d1")
    \/ \E u \in Users, t \in Stamps, e \in JournalAdds : AddJournalEntry(u, "d1", t, e)
    \/ \E u \in Users, t \in Stamps, e \in JournalUpdates : UpdateJournalEntry(u, "d1", t, e)
    \/ \E u \in Users, t \in Stamps : DeleteJournalEntry(u, "d1", t)

SpecJournal == Init /\ [][NextJournal]_vars

\* daily logs come and go: get_or_create requests of two sessions (so that one day can have
\* two rows), journal entries, and the two deletes
NextLifecycle ==
    \/ \E proc \in Procs, u \in Users, d \in Dates : GocSelect(proc, u, d)
    \/ \E proc \in Procs : GocReturn(proc) /\ nextId' <= MaxLogs
    \/ \E u \in Users, d \in Dates :
        /\ AddJournalEntry(u, d, [hour |-> 1], JournalRequest("text", "x", None, None))
        /\ nextId' <= MaxLogs
    \/ \E id \in 1..MaxLogs : DeleteById(id)
    \/ \E u \in Users, d \in Dates : DeleteByDate(u, d)

SpecLifecycle == Init /\ [][NextLifecycle]_vars

\* the (dimension, unit) pairs the requests of SpecUnits carry: two that agree with
\* DIMENSION_UNITS and one that does not
UnitPairs == {<<"distance", "km">>, <<"time", "minutes">>, <<"distance", "minutes">>}

\* an AddActivityRequest for the health pillar with the given name, dimension and unit
UnitRequest(name, dimension, unit) ==
    [Request(name, "health", 0) EXCEPT !.dimension = dimension, !.unit = unit]

UnitRequests == {UnitRequest(n, du[1], du[2]) : n \in Names, du \in UnitPairs}

\* the pillar lists a create or record update carries: CompleteActivity takes any unit string
UnitLists == {<<>>} \cup {<<Build(r)>> : r \in UnitRequests}

\* the non-None arguments of an update_user_activity call: the dimension alone, the unit
\* alone, or both
UnitUpdates ==
    {[k \in {"dimension"} |-> du[1]] : du \in UnitPairs}
        \cup {[k \in {"unit"} |-> du[2]] : du \in UnitPairs}
        \cup {[k \in {"dimension", "unit"} |-> IF k = "dimension" THEN du[1] ELSE du[2]] :
                    du \in UnitPairs}

\* the priorities router on two activities of the health pillar, with requests that differ in
\* dimension and unit
NextUnits ==
    \/ \E u \in Users, l \in UnitLists :
        CreatePriorities(u, [EmptyPriorities EXCEPT !.health_activities = l])
    \/ \E u \in Users, l \in UnitLists :
        UpdateMyPriorities(u, [c \in {"health_activities"} |-> l])
    \/ \E u \in Users : DeletePriorities(u)
    \/ \E u \in Users, r \in UnitRequests :
        /\ AddUserActivity(u, r.pillar, r.name, r.description, r.dimension, r.complete,
                           r.unit, r.quota_value, r.reset_frequency)
        /\ CatalogBound(MaxCatalog)'
    \/ \E u \in Users, rs \in SeqsUpTo(UnitRequests, MaxBulk) :
        BulkAddUserActivities(u, rs) /\ CatalogBound(MaxCatalog)'
    \/ \E u \in Users, n \in Names, upd \in UnitUpdates : UpdateUserActivity(u, "health", n, upd)
    \/ \E u \in Users, n \in Names : RemoveUserActivity(u, "health", n)

SpecUnits == Init /\ [][NextUnits]_vars

\* the complete and quota values the requests of SpecQuota carry, inside and outside the
\* declared ranges
QuotaCompletes == {-1, 0, MaxComplete}

QuotaValues == {-1, 0, 2}

\* AddActivityRequest bodies for the health pillar
QuotaRequests ==
    {[Request(n, "health", c) EXCEPT !.quota_value = q] :
        n \in Names, c \in QuotaCompletes, q \in QuotaValues}

QuotaLists == {<<>>} \cup {<<Build(r)>> : r \in QuotaRequests}

\* the query parameters of an update: complete alone, quota_value alone, or both
QuotaUpdates ==
    {[k \in {"complete"} |-> c] : c \in QuotaCompletes}
        \cup {[k \in {"quota_value"} |-> q + 1] : q \in QuotaValues}
        \cup {[k \in {"complete", "quota_value"} |-> IF k = "complete" THEN c ELSE q + 1] :
                    c \in QuotaCompletes, q \in QuotaValues}

\* the activity endpoints of the priorities router, with requests inside and outside the
\* declared ranges
NextQuota ==
    \/ \E u \in Users, l \in QuotaLists :
        create_priorities(u, [EmptyPriorities EXCEPT !.health_activities = l])
    \/ \E u \in Users, l \in QuotaLists :
        update_my_priorities(u, [c \in {"health_activities"} |-> l])
    \/ \E u \in Users : DeletePriorities(u)
    \/ \E u \in Users, r \in QuotaRequests :
        add_my_activity(u, r) /\ CatalogBound(MaxCatalog)'
    \/ \E u \in Users, rs \in SeqsUpTo(QuotaRequests, MaxBulk) :
        bulk_add_my_activities(u, rs) /\ CatalogBound(MaxCatalog)'
    \/ \E u \in Users, n \in Names, upd \in QuotaUpdates :
        update_my_activity(u, "health", n, upd)
    \/ \E u \in Users, n \in Names, c \in QuotaCompletes :
        update_activity_progress(u, "health", n, c)
    \/ \E u \in Users, n \in Names : RemoveUserActivity(u, "health", n)

SpecQuota == Init /\ [][NextQuota]_vars

\* the arguments of the build_activity calls: names and descriptions empty or not, the
\* (dimension, unit) pairs of UnitPairs, complete and quota values inside and outside
\* their ranges
BuildRequests ==
    {[name |-> n, description |-> d, pillar |-> "health", dimension |-> du[1],
      complete |-> c, unit |-> du[2], quota_value |-> q, reset_frequency |-> "daily"] :
        n \in {"walk", ""}, d \in {"d", ""}, du \in UnitPairs,
        c \in QuotaCompletes, q \in QuotaValues}

\* build_activity calls between calls that change the stored catalog
NextBuild ==
    \/ \E request \in BuildRequests : BuildActivity(request)
    \/ \E u \in Users, l \in UnitLists :
        CreatePriorities(u, [EmptyPriorities EXCEPT !.health_activities = l])
    \/ \E u \in Users : DeletePriorities(u)

SpecBuild == Init /\ [][NextBuild]_vars

\* the users and the bodies of the create requests of SpecCreate
CreateUsers == {"u1", "u2"}

CreateBodies ==
    {[EmptyPriorities EXCEPT !.health_activities = l] :
        l \in {<<>>, <<Build(Request("walk", "health", 0))>>, <<Build(Request("read", "health", 0))>>}}

\* create_priorities, as one step and as the two steps of requests in separate sessions, and
\* delete_priorities
NextCreate ==
    \/ \E u \in CreateUsers, data \in CreateBodies : CreatePriorities(u, data)
    \/ \E proc \in Procs, u \in CreateUsers, data \in CreateBodies : CreateExists(proc, u, data)
    \/ \E proc \in Procs : CreateInsert(proc)
    \/ \E u \in CreateUsers : DeletePriorities(u)

SpecCreate == Init /\ [][NextCreate]_vars

\* a request body that stores read and walk, with complete 1, in the health pillar
TwoActivities ==
    [EmptyPriorities EXCEPT !.health_activities =
        <<Build(Request("read", "health", 1)), Build(Request("walk", "health", 1))>>]

\* the non-None arguments of the update_user_activity calls of SpecUpdate: none, each of the
\* six alone, dimension and unit together (a pair of the table and a pair outside it), and
\* all six
ActivityUpdates ==
    {<<>>,
     [k \in {"description"} |-> "e"],
     [k \in {"dimension"} |-> "time"],
     [k \in {"complete"} |-> 0],
     [k \in {"unit"} |-> "km"],
     [k \in {"quota_value"} |-> 3],
     [k \in {"reset_frequency"} |-> "weekly"],
     [dimension |-> "time", unit |-> "minutes"],
     [dimension |-> "time", unit |-> "km"],
     [description |-> "e", dimension |-> "distance", complete |-> 0, unit |-> "steps",
      quota_value |-> 3, reset_frequency |-> "weekly"]}

\* the pillars and names the update, remove and bulk-add calls of SpecUpdate name
UpdatePillars == {"health", "work"}

UpdateNames == {"walk", "swim"}

\* update_user_activity on a catalog that holds two activities in one pillar
NextUpdate ==
    \/ \E u \in Users : CreatePriorities(u, TwoActivities)
    \/ \E u \in Users, p \in UpdatePillars, n \in UpdateNames, upd \in ActivityUpdates :
        UpdateUserActivity(u, p, n, upd)

SpecUpdate == Init /\ [][NextUpdate]_vars

\* the names the remove and bulk-add calls use
RemoveNames == Names \cup {"swim"}

\* the lists of the health pillar SpecRemove starts from: up to three activities drawn from
\* three names, so that a name can stand twice
RemoveLists ==
    LET A == {Build(Request(n, "health", 0)) : n \in RemoveNames}
    IN  {<<>>} \cup {<<a>> : a \in A} \cup {<<a, b>> : a, b \in A}
            \cup {<<a, b, c>> : a, b, c \in A}

\* remove_user_activity on catalogs of up to three activities; the relationships pillar holds
\* one activity throughout
NextRemove ==
    \/ \E u \in Users, l \in RemoveLists :
        CreatePriorities(u, [EmptyPriorities EXCEPT
                                !.health_activities = l,
                                !.relationships_activities =
                                    <<Build(Request("walk", "relationships", 0))>>])
    \/ \E u \in Users : DeletePriorities(u)
    \/ \E u \in Users, p \in UpdatePillars, n \in RemoveNames :
        RemoveUserActivity(u, p, n)

SpecRemove == Init /\ [][NextRemove]_vars

\* the items of the bulk-add calls of SpecBulkAdd: walk and read for the health pillar and
\* for the relationships pillar, and swim with a unit outside the table of its dimension
BulkAddItems ==
    {Request("walk", "health", 0), Request("read", "health", 0),
     Request("walk", "relationships", 0), Request("read", "relationships", 0),
     [Request("swim", "health", 0) EXCEPT !.unit = "minutes"]}

BulkAddInputs == SeqsUpTo(BulkAddItems, MaxBulk)

\* bulk_add_user_activities on a catalog whose health list is empty or holds a walk, a
\* read or both, whose complete value differs from that of the items
NextBulkAdd ==
    \/ \E u \in Users, l \in {<<>>, <<Build(Request("walk", "health", 1))>>,
                               <<Build(Request("read", "health", 1))>>,
                               <<Build(Request("read", "health", 1)),
                                 Build(Request("walk", "health", 1))>>} :
        CreatePriorities(u, [EmptyPriorities EXCEPT !.health_activities = l])
    \/ \E u \in Users : DeletePriorities(u)
    \/ \E u \in Users, rs \in BulkAddInputs : BulkAddUserActivities(u, rs)

SpecBulkAdd == Init /\ [][NextBulkAdd]_vars

\* the names of the activities of the trackers of SpecSummary
SummaryNames == {"walk", "read", "swim", "breathe"}

\* the trackers create_with_activities stores when its caller passes activities: walk and
\* read in the health list, swim in the relationship list and, in one of the two, breathe in
\* the health coping list
SummaryTrackers ==
    {[EmptyTracker EXCEPT
        !.health_activity = <<Build(Request("walk", "health", 0)),
                              Build(Request("read", "health", 0))>>,
        !.relationship_activity = <<Build(Request("swim", "relationships", 0))>>,
        !.health_coping = c] :
      c \in {<<>>, <<Build(Request("breathe", "health", 0))>>}}

\* one user with one log row whose tracker is one of SummaryTrackers; no row for day d2
InitSummary ==
    /\ priorities = <<>>
    /\ logs = {[id |-> 1, user_id |-> "u1", date |-> "d1"]}
    /\ trackers \in {[id \in {1} |-> t] : t \in SummaryTrackers}
    /\ checkins = [id \in {1} |-> EmptyCheckin]
    /\ journals = [id \in {1} |-> EmptyJournal]
    /\ chatbots = [id \in {1} |-> EmptyConversation]
    /\ nextId = 1
    /\ reqs = [p \in Procs |-> Idle]
    /\ last = Call("init", "", NoDate, 0, "", Ok, 0, 0)

\* progress is recorded for the activities of day d1, the summary is read for both days
NextSummary ==
    \/ \E u \in Users, n \in SummaryNames, v \in 0..(MaxComplete + 1) :
        UpdateActivityComplete(u, "d1", n, v, NoCategory)
    \/ \E u \in Users, d \in Dates : GetActivityProgressSummary(u, d)

SpecSummary == InitSummary /\ [][NextSummary]_vars

\* the days a streak can read: MaxDays days ending today, and the day before them
StreakDates == (Today - MaxDays)..Today

\* a catalog with walk in the health pillar is created, rows are created for the days and
\* progress on walk is recorded; the streak of walk is read through the service and the crud
NextStreak ==
    \/ \E u \in Users :
        CreatePriorities(u, [EmptyPriorities EXCEPT
                                !.health_activities = <<Build(Request("walk", "health", 0))>>])
    \/ \E u \in Users, d \in StreakDates : GetOrCreateDailyLog(u, d)
    \/ \E u \in Users, d \in StreakDates, v \in {1, 2} :
        UpdateActivityComplete(u, d, "walk", v, NoCategory)
    \/ \E u \in Users, c \in {NoCategory, "health"}, n \in 1..MaxDays :
        GetActivityStreak(u, "walk", c, n)
    \/ \E u \in Users, c \in {NoCategory, "health"}, n \in 1..MaxDays :
        CrudGetActivityStreak(u, "walk", c, n)

SpecStreak == Init /\ [][NextStreak]_vars

\* the read operations
ReadOps ==
    {"get_activities_by_date", "get_activity_by_name", "completion_percentage",
     "generate_daily_summary", "get_all_activities", "progress_summary", "activity_streak",
     "crud_activity_streak"}

\* a catalog with walk, rows for the days and progress on walk, and every read operation on
\* days with and without a row
NextReads ==
    \/ \E u \in Users :
        CreatePriorities(u, [EmptyPriorities EXCEPT
                                !.health_activities = <<Build(Request("walk", "health", 0))>>])
    \/ \E u \in Users, d \in StreakDates : GetOrCreateDailyLog(u, d)
    \/ \E u \in Users, d \in StreakDates : UpdateActivityComplete(u, d, "walk", 1, NoCategory)
    \/ \E u \in Users, d \in StreakDates : GetActivitiesByDate(u, d)
    \/ \E u \in Users, d \in StreakDates : GetActivityByName(u, d, "walk", NoCategory)
    \/ \E u \in Users, d \in StreakDates : GetCompletionPercentage(u, d, "walk", NoCategory)
    \/ \E u \in Users, d \in StreakDates : GetActivityProgressSummary(u, d)
    \/ \E u \in Users, d \in StreakDates : GenerateDailySummary(u, d)
    \/ \E u \in Users : GetAllUserActivities(u)
    \/ \E u \in Users : GetActivityStreak(u, "walk", NoCategory, MaxDays)
    \/ \E u \in Users : CrudGetActivityStreak(u, "walk", NoCategory, MaxDays)

SpecReads == Init /\ [][NextReads]_vars

\* the complete and quota values of the activity whose percentage is computed
PercentCompletes == (0..(MaxComplete + 2)) \cup {7500, 10000, 12000}

PercentQuotas == {0, 1, 2, 3, 7, 800, 10000}

\* one user with one log row whose tracker holds walk with a complete value and a quota
\* value drawn from the two sets
InitPercentage ==
    /\ priorities = <<>>
    /\ logs = {[id |-> 1, user_id |-> "u1", date |-> "d1"]}
    /\ trackers \in
        {[id \in {1} |->
            [EmptyTracker EXCEPT !.health_activity =
                <<[Build(Request("walk", "health", c)) EXCEPT !.configuration.quota.value = q]>>]] :
         c \in PercentCompletes, q \in PercentQuotas}
    /\ checkins = [id \in {1} |-> EmptyCheckin]
    /\ journals = [id \in {1} |-> EmptyJournal]
    /\ chatbots = [id \in {1} |-> EmptyConversation]
    /\ nextId = 1
    /\ reqs = [p \in Procs |-> Idle]
    /\ last = Call("init", "", NoDate, 0, "", Ok, 0, 0)

\* the percentage of walk and of an activity the tracker does not hold, on the day of the
\* row and on a day without one, between updates of walk's complete value
NextPercentage ==
    \/ \E u \in Users, v \in PercentCompletes :
        UpdateActivityComplete(u, "d1", "walk", v, NoCategory)
    \/ \E u \in Users, d \in Dates, n \in Names :
        GetCompletionPercentage(u, d, n, NoCategory)

SpecPercentage == InitPercentage /\ [][NextPercentage]_vars

\* the longest conversation
MaxChat == 3

ChatBound == \A id \in DOMAIN chatbots : Len(chatbots[id]) <= MaxChat

\* the conversation of one day of one user: messages of the two roles are added at the clock
\* values of Stamps, deleted by an index inside or outside the list, and cleared
NextChat ==
    \/ \E u \in Users : GetOrCreateDailyLog(u, "d1")
    \/ \E u \in Users, r \in {"user", "assistant"}, t \in Stamps :
        AddChatbotMessage(u, "d1", r, "hi", t) /\ ChatBound'
    \/ \E u \in Users, i \in -1..MaxChat : DeleteChatbotMessage(u, "d1", i)
    \/ \E u \in Users : ClearChatbotConversation(u, "d1")

SpecChat == Init /\ [][NextChat]_vars

\* the catalog of SpecInitRace: walk and read in the health pillar
InitRaceCatalog ==
    [EmptyPriorities EXCEPT !.health_activities =
        <<Build(Request("walk", "health", 0)), Build(Request("read", "health", 0))>>]

\* a day whose log was created before the catalog, so that its tracker is Empty, and one
\* mutation request per session on it
NextInitRace ==
    \/ \E u \in Users : CreatePriorities(u, InitRaceCatalog)
    \/ \E u \in Users : GetOrCreateDailyLog(u, "d1")
    \/ \E proc \in Procs, u \in Users, op \in {"update_complete", "increment_complete"},
          n \in Names, v \in 1..MaxComplete : MutSelect(proc, u, "d1", op, n, v)
    \/ \E proc \in Procs, u \in Users, op \in {"update_complete", "increment_complete"},
          n \in Names, v \in 1..MaxComplete : MutSelectEmpty(proc, u, "d1", op, n, v)
    \/ \E proc \in Procs : InitCheck(proc)
    \/ \E proc \in Procs : InitPopulate(proc)
    \/ \E proc \in Procs : MutCommit(proc)

SpecInitRace == Init /\ [][NextInitRace]_vars

\* the requests of SpecAddRace: walk and read, in health and in work
AddRaceRequests == {Request(n, p, 0) : n \in Names, p \in {"health", "work"}}

\* two sessions that add activities to the catalog of one user
NextAddRace ==
    \/ \E u \in Users : CreatePriorities(u, EmptyPriorities)
    \/ \E proc \in Procs, u \in Users, req \in AddRaceRequests : AddSelect(proc, u, req)
    \/ \E proc \in Procs : AddCommit(proc)

SpecAddRace == Init /\ [][NextAddRace]_vars

\* the calls of SpecErrors on the one day d1: each with an input that succeeds and the inputs
\* that fail (no catalog, an unknown activity, a negative value, an unknown category, a
\* timestamp that is present or missing, an index past the end)
NextErrors ==
    \/ \E u \in Users : CreatePriorities(u, InitRaceCatalog)
    \/ \E u \in Users : DeletePriorities(u)
    \/ \E u \in Users : GetOrCreateDailyLog(u, "d1")
    \/ \E u \in Users : InitializeDailyActivities(u, "d1")
    \/ \E u \in Users, n \in {"walk", "swim"}, v \in {-1, 1} :
        UpdateActivityComplete(u, "d1", n, v, NoCategory)
    \/ \E u \in Users, n \in {"walk", "swim"} : IncrementActivityComplete(u, "d1", n, 1, NoCategory) /\ CompleteBound'
    \/ \E u \in Users, c \in {"health", BadCategory} : ResetCategoryActivities(u, "d1", c)
    \/ \E u \in Users : AddCheckinEntry(u, "d1", "mood", [hour |-> 1], "happy")
    \/ \E u \in Users, v \in CheckinValues : UpdateCheckinEntry(u, "d1", "mood", [hour |-> 1], v)
    \/ \E u \in Users : AddJournalEntry(u, "d1", [hour |-> 1], JournalRequest("text", "x", None, None))
    \/ \E u \in Users : UpdateJournalEntry(u, "d1", [hour |-> 1], JournalRequest(None, "y", None, None))
    \/ \E u \in Users : DeleteJournalEntry(u, "d1", [hour |-> 1])
    \/ \E u \in Users : AddChatbotMessage(u, "d1", "user", "hi", [hour |-> 1]) /\ ChatBound'
    \/ \E u \in Users, i \in 0..MaxChat : DeleteChatbotMessage(u, "d1", i)

SpecErrors == Init /\ [][NextErrors]_vars

\* the users of SpecIsolation
TwoUsers == {"u1", "u2"}

\* the catalogs of SpecIsolation: walk alone, and walk with read, in the health pillar
IsolationCatalogs ==
    {[EmptyPriorities EXCEPT !.health_activities = <<Build(Request("walk", "health", 0))>>],
     InitRaceCatalog}

\* two users, each with a catalog and the log of the day d1
NextIsolation ==
    \/ \E u \in TwoUsers, data \in IsolationCatalogs : CreatePriorities(u, data)
    \/ \E u \in TwoUsers : DeletePriorities(u)
    \/ \E u \in TwoUsers : RemoveUserActivity(u, "health", "read")
    \/ \E u \in TwoUsers : GetOrCreateDailyLog(u, "d1")
    \/ \E u \in TwoUsers : InitializeDailyActivities(u, "d1")
    \/ \E u \in TwoUsers, n \in Names : UpdateActivityComplete(u, "d1", n, 1, NoCategory)
    \/ \E u \in TwoUsers : AddCheckinEntry(u, "d1", "mood", [hour |-> 1], "happy")

SpecIsolation == Init /\ [][NextIsolation]_vars

-----------------------------------------------------------------------------
(* Properties *)

TrackerMutations ==
    {"update_complete", "increment_complete", "reset_activity", "reset_category", "reset_all",
     "bulk_update"}

\* the rows of one user and one day
LogsOf(user, date) == {l \in logs : l.user_id = user /\ l.date = date}

\* C1: a tracker mutation called for date D (update, increment, reset of an activity, of a
\* category or of all, bulk update) leaves the user_priorities table as it was, complete values
\* included, and leaves every row of another date, and its tracker, as it was.
C1_SnapshotIsolation ==
    [][last'.op \in TrackerMutations =>
        /\ priorities' = priorities
        /\ \A l \in logs : l.date # last'.date => l \in logs' /\ trackers'[l.id] = trackers[l.id]
        /\ \A l \in logs' : l.date # last'.date => l \in logs]_vars

\* an increment on d1 has succeeded; d1's activity stands at 1 while d2's tracker and the
\* catalog still hold theirs
C1_Witness ==
    /\ last.op = "increment_complete" /\ last.result = Ok /\ last.date = "d1"
    /\ \E u \in DOMAIN priorities : priorities[u].health_activities # <<>>
    /\ \E l1 \in LogsOf("u1", "d1"), l2 \in LogsOf("u1", "d2") :
        /\ trackers[l1.id].health_activity # <<>>
        /\ trackers[l2.id].health_activity # <<>>
        /\ trackers[l1.id].health_activity[1].configuration.complete = 1
        /\ trackers[l2.id].health_activity[1].configuration.complete = 0

\* C2: in every state of the priorities store no activity list of a user_priorities row holds
\* two activities with the same name.
C2_UniqueNames ==
    \A u \in DOMAIN priorities : \A c \in Columns : \A i, j \in DOMAIN priorities[u][c] :
        priorities[u][c][i].name = priorities[u][c][j].name => i = j

\* C3: add_activity on a list without the name succeeds and appends the activity at the end,
\* the other lists staying; on a list that holds the name it fails with the already-exists
\* error and changes nothing.  The test is per list, so the name of another pillar's activity
\* can be added.
C3_AddActivity ==
    [][\A u \in Users, r \in Requests(Names \X PillarName, {0, 1}) :
        (/\ u \in DOMAIN priorities
         /\ AddUserActivity(u, r.pillar, r.name, r.description, r.dimension, r.complete,
                            r.unit, r.quota_value, r.reset_frequency))
        => LET column == ColumnName(r.pillar)
               P == priorities[u][column]
           IN  IF \E i \in DOMAIN P : P[i].name = r.name
                 THEN /\ last'.result = ErrActivityExists
                      /\ priorities' = priorities
                 ELSE /\ last'.result = Ok
                      /\ priorities'[u][column] = P \o <<Build(r)>>
                      /\ \A c \in Columns \ {column} : priorities'[u][c] = priorities[u][c]]_vars

\* an add has just failed on a duplicate while the same name stands in two pillars
C3_Witness ==
    /\ last.op = "add_activity" /\ last.result = ErrActivityExists
    /\ \E u \in DOMAIN priorities : \E n \in Names :
        /\ HasName(priorities[u].health_activities, n)
        /\ HasName(priorities[u].relationships_activities, n)

\* the five calls the tracker engine's mutation policy covers
MutationOps ==
    {"update_complete", "increment_complete", "reset_activity", "reset_category", "reset_all"}

\* the id of the row of (user, date) among the rows ls, or the id the next insert gets
RowId(ls, next, user, date) ==
    IF \E l \in ls : l.user_id = user /\ l.date = date
      THEN (CHOOSE l \in ls : l.user_id = user /\ l.date = date).id
      ELSE next + 1

\* the lifecycle stage of the tracker of (user, date) in the current state
Stage(user, date) == Lifecycle(DB, RowId(logs, nextId, user, date))

Max0(x) == IF x > 0 THEN x ELSE 0

\* a list with every complete value set to 0 and everything else kept
Zeroed(acts) == [i \in DOMAIN acts |-> [acts[i] EXCEPT !.configuration.complete = 0]]

ZeroedTracker(t) == [f \in FieldSet |-> Zeroed(t[f])]

\* the tracker a catalog populates: per pillar the catalog's list in its order with
\* complete = 0, and four empty coping lists
SnapshotOf(rec) ==
    [health_activity |-> Zeroed(rec.health_activities),
     work_activity |-> Zeroed(rec.work_activities),
     growth_activity |-> Zeroed(rec.growth_activities),
     relationship_activity |-> Zeroed(rec.relationships_activities),
     health_coping |-> <<>>,
     productivity_coping |-> <<>>,
     mindfulness_coping |-> <<>>,
     relationship_coping |-> <<>>]

\* the number of activities of tracker t whose complete is not 0
NonZero(t) ==
    Cardinality({fi \in FieldSet \X (1..MaxCatalog) :
                    /\ fi[2] \in DOMAIN t[fi[1]]
                    /\ t[fi[1]][fi[2]].configuration.complete # 0})

CatalogColumn(category) ==
    CASE category = "health" -> "health_activities"
      [] category = "work" -> "work_activities"
      [] category = "growth" -> "growth_activities"
      [] category \in {"relationships", "relationship"} -> "relationships_activities"

\* the catalog holds name in the pillar the category argument names, or in any pillar when
\* no category is given
InCatalogScope(rec, name, category) ==
    IF category = NoCategory THEN \E c \in Columns : HasName(rec[c], name)
    ELSE category \in Categories /\ HasName(rec[CatalogColumn(category)], name)

\* tracker t is the catalog's snapshot with complete = value on one activity called name and
\* complete = 0 on every other
AppliedToSnapshot(t, rec, name, value) ==
    /\ ZeroedTracker(t) = SnapshotOf(rec)
    /\ \E f \in ActivityFields : \E i \in DOMAIN t[f] :
        /\ t[f][i].name = name
        /\ t[f][i].configuration.complete = value
        /\ \A g \in ActivityFields : \A j \in DOMAIN t[g] :
            (g # f \/ j # i) => t[g][j].configuration.complete = 0

\* C4: a mutation (update with a value >= 0, increment, reset of an activity, of a category,
\* of all) called while the tracker of (user, date) is Absent or Empty, for a user whose
\* catalog holds the named activity in the scanned pillars, succeeds, and the tracker it
\* leaves is the catalog's snapshot with the mutation applied: it does not end in
\* activity-not-found or no-priorities.
C4_AutoInitialize ==
    [][(/\ last'.op \in MutationOps
        /\ Stage(last'.user, last'.date) \in {"Absent", "Empty"}
        /\ last'.user \in DOMAIN priorities)
       => LET u == last'.user
              d == last'.date
              rec == priorities[u]
              t == trackers'[RowId(logs', nextId', u, d)]
          IN  /\ \A n \in Names, c \in CategoryInputs : InCatalogScope(rec, n, c) =>
                    /\ \A v \in 0..MaxComplete : UpdateActivityComplete(u, d, n, v, c)
                            => last'.result = Ok /\ AppliedToSnapshot(t, rec, n, v)
                    /\ \A i \in Increments : IncrementActivityComplete(u, d, n, i, c)
                            => last'.result = Ok /\ AppliedToSnapshot(t, rec, n, Max0(i))
                    /\ ResetActivity(u, d, n, c)
                            => last'.result = Ok /\ AppliedToSnapshot(t, rec, n, 0)
              /\ \A c \in Categories : ResetCategoryActivities(u, d, c)
                    => last'.result = Ok /\ t = SnapshotOf(rec)
              /\ last'.op = "reset_all" => last'.result = Ok /\ t = SnapshotOf(rec)]_vars

\* an increment by 1 has succeeded on a tracker that was Empty when the call began
C4_Witness ==
    /\ last.op = "increment_complete" /\ last.was = "Empty" /\ last.result = Ok
    /\ last.arg = 1
    /\ \E l \in LogsOf(last.user, last.date) : NonZero(trackers[l.id]) = 1

\* C5: initialize_daily_activities on a Populated tracker succeeds and changes no table,
\* whatever the catalog holds by then; and a call that follows another initialize call for
\* the same (user, date) changes no table.
C5_InitializeIdempotent ==
    [][last'.op = "initialize" =>
        /\ Stage(last'.user, last'.date) = "Populated"
            => last'.result = Ok /\ store' = store
        /\ (last.op = "initialize" /\ last.user = last'.user /\ last.date = last'.date)
            => store' = store]_vars

\* initialize has returned on a Populated tracker that holds progress and no longer matches
\* the catalog
C5_Witness ==
    /\ last.op = "initialize" /\ last.was = "Populated" /\ last.result = Ok
    /\ last.user \in DOMAIN priorities
    /\ \E l \in LogsOf(last.user, last.date) :
        /\ NonZero(trackers[l.id]) > 0
        /\ ZeroedTracker(trackers[l.id]) # SnapshotOf(priorities[last.user])

\* the call has inserted one user_daily_log row with id id for (user, date) and one child row
\* of each kind, and has left every other row as it was
CreatedOneLog(id, user, date) ==
    /\ id \notin {l.id : l \in logs}
    /\ logs' = logs \cup {[id |-> id, user_id |-> user, date |-> date]}
    /\ DOMAIN trackers' = DOMAIN trackers \cup {id}
    /\ DOMAIN checkins' = DOMAIN checkins \cup {id}
    /\ DOMAIN journals' = DOMAIN journals \cup {id}
    /\ DOMAIN chatbots' = DOMAIN chatbots \cup {id}
    /\ \A j \in DOMAIN trackers :
        /\ trackers'[j] = trackers[j]
        /\ checkins'[j] = checkins[j]
        /\ journals'[j] = journals[j]
        /\ chatbots'[j] = chatbots[j]
    /\ checkins'[id] = EmptyCheckin
    /\ journals'[id] = EmptyJournal
    /\ chatbots'[id] = EmptyConversation

\* C6: get_or_create_daily_log for an Absent (user, date) inserts the log row and its four
\* children in one step; when the user has a user_priorities row the new tracker holds, per
\* pillar, the catalog's activities in the catalog's order with complete = 0 and every other
\* field equal, and four empty coping lists.  For an existing (user, date) it succeeds and
\* changes no table.
C6_GetOrCreate ==
    [][last'.op = "get_or_create" =>
        LET u == last'.user
            d == last'.date
            id == RowId(logs', nextId', u, d)
        IN  /\ last'.result = Ok
            /\ priorities' = priorities
            /\ IF LogsOf(u, d) = {}
                 THEN /\ CreatedOneLog(id, u, d)
                      /\ u \in DOMAIN priorities => trackers'[id] = SnapshotOf(priorities[u])
                 ELSE store' = store]_vars

\* get_or_create has created the log of a user whose catalog holds a complete value of 1; the
\* tracker holds the activity with complete = 0
C6_Witness ==
    /\ last.op = "get_or_create" /\ last.was = "Absent" /\ last.result = Ok
    /\ last.user \in DOMAIN priorities
    /\ priorities[last.user].health_activities # <<>>
    /\ priorities[last.user].health_activities[1].configuration.complete = 1
    /\ \E l \in LogsOf(last.user, last.date) :
        /\ Len(trackers[l.id].health_activity) = Len(priorities[last.user].health_activities)
        /\ trackers[l.id].health_activity[1].configuration.complete = 0

\* C7: get_or_create_daily_log that creates the log of a user without a user_priorities row
\* succeeds and leaves all eight lists of the new tracker empty.  A mutation or a bulk update
\* that reaches such an Empty tracker once the user has a catalog (every call but an update
\* with a negative value, which is rejected on its argument, and a bulk update that counts no
\* success) leaves the tracker equal to the catalog's snapshot except for the complete values
\* the call itself has set: at most one for a mutation, none for a reset of all.
C7_LazyPopulate ==
    [][LET u == last'.user
           d == last'.date
           id == RowId(logs', nextId', u, d)
       IN  /\ (last'.op = "get_or_create" /\ LogsOf(u, d) = {} /\ u \notin DOMAIN priorities)
                => last'.result = Ok /\ trackers'[id] = EmptyTracker
           /\ (/\ last'.op \in MutationOps
               /\ Stage(u, d) = "Empty"
               /\ u \in DOMAIN priorities
               /\ last'.result # ErrNegative)
                => /\ ZeroedTracker(trackers'[id]) = SnapshotOf(priorities[u])
                   /\ NonZero(trackers'[id]) <= 1
                   /\ last'.op = "reset_all" => trackers'[id] = SnapshotOf(priorities[u])
           /\ (/\ last'.op = "bulk_update"
               /\ Stage(u, d) = "Empty"
               /\ u \in DOMAIN priorities
               /\ last'.success_count > 0)
                => /\ ZeroedTracker(trackers'[id]) = SnapshotOf(priorities[u])
                   /\ NonZero(trackers'[id]) <= last'.success_count]_vars

\* an update to 1 has succeeded on a tracker that was created Empty, before the user had a
\* catalog: the tracker now holds the catalog's two activities, one of them with complete = 1
C7_Witness ==
    /\ last.op = "update_complete" /\ last.was = "Empty" /\ last.result = Ok /\ last.arg = 1
    /\ last.user \in DOMAIN priorities
    /\ CatalogSize(priorities[last.user]) = 2
    /\ \E l \in LogsOf(last.user, last.date) :
        /\ ZeroedTracker(trackers[l.id]) = SnapshotOf(priorities[last.user])
        /\ NonZero(trackers[l.id]) = 1

\* name stands in none of the eight lists of tracker t
NotInTracker(t, name) == \A f \in FieldSet : ~HasName(t[f], name)

\* the tables of the daily-log store as a call's result carries them
SameTables(db) == db = DB

\* C8: once the tracker of a row is Populated no call, of the priorities router or of the
\* daily-log router, removes the row or changes the tracker's activities in anything but
\* their complete values; and in every state an update with a value >= 0 (a reset of the
\* activity is the update with 0) or an increment that names an activity the Populated
\* tracker does not hold ends in activity-not-found and changes no table, whether or not the
\* catalog holds the activity by then.
C8_NoMidDayMerge ==
    /\ [][\A l \in logs : Lifecycle(DB, l.id) = "Populated" =>
            /\ l \in logs'
            /\ ZeroedTracker(trackers'[l.id]) = ZeroedTracker(trackers[l.id])]_vars
    /\ [](\A l \in logs : Lifecycle(DB, l.id) = "Populated" =>
            \A n \in Names, c \in CategoryInputs : NotInTracker(trackers[l.id], n) =>
                /\ \A v \in 0..MaxComplete :
                    LET r == update_activity_complete(DB, l.user_id, l.date, n, v, c, l.id)
                    IN  r.error = ErrActivityNotFound /\ SameTables(r.db)
                /\ \A i \in Increments :
                    LET r == increment_activity_complete(DB, l.user_id, l.date, n, i, c, l.id)
                    IN  r.error = ErrActivityNotFound /\ SameTables(r.db))

\* an increment has ended in activity-not-found on a Populated tracker although the catalog
\* holds an activity the tracker does not
C8_Witness ==
    /\ last.op = "increment_complete" /\ last.was = "Populated"
    /\ last.result = ErrActivityNotFound
    /\ last.user \in DOMAIN priorities
    /\ \E l \in LogsOf(last.user, last.date) : \E n \in Names :
        /\ NotInTracker(trackers[l.id], n)
        /\ \E c \in Columns : HasName(priorities[last.user][c], n)

\* every complete value of every tracker list is at least 0
NonNegative ==
    \A id \in DOMAIN trackers : \A f \in FieldSet : \A i \in DOMAIN trackers[id][f] :
        trackers[id][f][i].configuration.complete >= 0

\* C9: every complete value of every tracker is at least 0 in every state; an increment by d
\* that succeeds on a Populated tracker replaces the complete value c of one activity by
\* max(0, c + d) and changes nothing else.
C9_NonNegative ==
    [][/\ NonNegative'
       /\ (/\ last'.op = "increment_complete"
           /\ last'.result = Ok
           /\ Stage(last'.user, last'.date) = "Populated")
            => LET id == RowId(logs, nextId, last'.user, last'.date)
               IN  \E f \in FieldSet : \E i \in DOMAIN trackers[id][f] :
                    trackers' = [trackers EXCEPT ![id][f][i].configuration.complete =
                                    Max0(@ + last'.arg)]]_vars

\* an increment below zero has succeeded on a Populated tracker that holds one activity, and
\* its complete value is 0
C9_Witness ==
    /\ last.op = "increment_complete" /\ last.was = "Populated" /\ last.result = Ok
    /\ last.arg = 0 - MaxComplete - 1
    /\ \E l \in LogsOf(last.user, last.date) :
        /\ Len(trackers[l.id].health_activity) = 1
        /\ trackers[l.id].health_activity[1].configuration.complete = 0

\* C10: no two user_daily_log rows share user and date.
C10_OneLogPerDay ==
    \A l1, l2 \in logs : (l1.user_id = l2.user_id /\ l1.date = l2.date) => l1 = l2

-----------------------------------------------------------------------------
\* the tracker after request r alone has run on tracker t of row id
RunAlone(r, t, id) ==
    LET db == [DB EXCEPT !.trackers[id] = t]
    IN  IF r.op = "increment_complete"
          THEN increment_activity_complete(db, r.user, r.date, r.activity_name, r.value,
                                           NoCategory, id).db.trackers[id]
          ELSE update_activity_complete(db, r.user, r.date, r.activity_name, r.value,
                                        NoCategory, id).db.trackers[id]

\* C11: when two mutation requests on the tracker of one (user, date) have both run, the
\* tracker is what one of the two serial orders of the requests leaves, starting from the
\* tracker with every complete value 0 that both found: two increments by d1 and d2 leave
\* d1 + d2, and updates of two activities of one list both survive.
C11_Serializable ==
    (reqs["r1"].pc = "done" /\ reqs["r2"].pc = "done") =>
        LET id == reqs["r1"].daily_log
            t0 == ZeroedTracker(trackers[id])
        IN  trackers[id] \in {RunAlone(reqs["r2"], RunAlone(reqs["r1"], t0, id), id),
                              RunAlone(reqs["r1"], RunAlone(reqs["r2"], t0, id), id)}

-----------------------------------------------------------------------------
\* the category an item of a bulk update carries
ItemCategory(update) == IF HasKey(update, "category") THEN update["category"] ELSE NoCategory

\* the item has a name and a value, and the value is not negative
WellFormed(update) ==
    HasKey(update, "name") /\ HasKey(update, "complete") /\ update["complete"] >= 0

\* the place of the activity an item names in the tracker of row id, in the scan order
Place(db, id, update) ==
    find_activity_in_tracker(db.trackers[id], update["name"], ItemCategory(update))

\* the item is well formed and names an activity the tracker of row id holds
Applies(db, id, update) ==
    WellFormed(update) /\ Exists(db, id) /\ Place(db, id, update).found

\* the loop of bulk_update_activities after the first n items of updates
AfterItems(user, date, updates, n, id) ==
    bulk_update_activities([db |-> DB, success_count |-> 0, error_count |-> 0],
                           user, date, SubSeq(updates, 1, n), id)

\* tracker t2 is tracker t1 with complete = value at (field_name, idx) and nothing else changed
OnlyChanged(t1, t2, field_name, idx, value) ==
    /\ t2[field_name][idx].configuration.complete = value
    /\ [t2 EXCEPT ![field_name][idx].configuration.complete = 0]
            = [t1 EXCEPT ![field_name][idx].configuration.complete = 0]

\* item i of updates: counted once, as a success with its value stored and nothing else
\* changed when it applies, as an error with no activity changed when it does not
ItemOutcome(user, date, updates, i, id) ==
    LET b == AfterItems(user, date, updates, i - 1, id)
        a == AfterItems(user, date, updates, i, id)
        update == updates[i]
    IN  IF Applies(a.db, id, update)
          THEN LET loc == Place(a.db, id, update)
               IN  /\ a.success_count = b.success_count + 1
                   /\ a.error_count = b.error_count
                   /\ IF Lifecycle(b.db, id) = "Populated"
                        THEN OnlyChanged(b.db.trackers[id], a.db.trackers[id],
                                         loc.field_name, loc.idx, update["complete"])
                        ELSE OnlyChanged(SnapshotOf(priorities[user]), a.db.trackers[id],
                                         loc.field_name, loc.idx, update["complete"])
          ELSE /\ a.success_count = b.success_count
               /\ a.error_count = b.error_count + 1
               /\ Lifecycle(b.db, id) = "Populated" => a.db = b.db
               /\ Exists(a.db, id) /\ Lifecycle(b.db, id) # "Populated" =>
                    ZeroedTracker(a.db.trackers[id]) = a.db.trackers[id]

\* the value of item i is in the tracker the whole call leaves, unless a later item that
\* applies names the same activity
Persisted(user, date, updates, i, id) ==
    LET k == Len(updates)
        a == AfterItems(user, date, updates, i, id)
        f == AfterItems(user, date, updates, k, id)
        loc == Place(a.db, id, updates[i])
    IN  (/\ Applies(a.db, id, updates[i])
         /\ \A j \in (i + 1)..k :
                ~(Applies(f.db, id, updates[j]) /\ Place(f.db, id, updates[j]) = loc))
        => f.db.trackers[id][loc.field_name][loc.idx].configuration.complete
              = updates[i]["complete"]

\* C12: bulk_update_activities over k items returns success_count + error_count = k; an item
\* that names an activity of the tracker with a value >= 0 is counted as a success and its
\* value is stored, whatever the items before and after it do; an item without a name or a
\* value, with a negative value or naming an unknown activity is counted as an error and sets
\* no complete value; no item undoes the value an earlier item stored for another activity.
C12_BulkPartial ==
    /\ \A u \in Users : \A id \in LogIds(DB, u, "d1") : \A ups \in BulkInputs :
        LET f == AfterItems(u, "d1", ups, Len(ups), id)
        IN  /\ f.success_count + f.error_count = Len(ups)
            /\ \A i \in 1..Len(ups) :
                /\ ItemOutcome(u, "d1", ups, i, id)
                /\ Persisted(u, "d1", ups, i, id)
    /\ last.op = "bulk_update" => last.result = Ok

\* a bulk update of three items has returned success_count = 2 and error_count = 1, and the
\* values of the two items that applied are stored
C12_Witness ==
    /\ last.op = "bulk_update"
    /\ last.success_count = 2
    /\ last.error_count = 1
    /\ \E id \in DOMAIN trackers :
        /\ trackers[id].health_activity # <<>>
        /\ trackers[id].health_activity[1].configuration.complete = 1
        /\ trackers[id].relationship_activity # <<>>
        /\ trackers[id].relationship_activity[1].configuration.complete = MaxComplete

-----------------------------------------------------------------------------
\* the order of the eight lists as the specification states it
ScanOrder ==
    <<"health_activity", "work_activity", "growth_activity", "relationship_activity",
      "health_coping", "productivity_coping", "mindfulness_coping", "relationship_coping">>

\* the lists a category scopes the scan to, the activity list before the coping list
ScopeOf(category) ==
    CASE category = NoCategory -> ScanOrder
      [] category = "health" -> <<"health_activity", "health_coping">>
      [] category = "work" -> <<"work_activity", "productivity_coping">>
      [] category = "growth" -> <<"growth_activity", "mindfulness_coping">>
      [] category \in {"relationship", "relationships"} ->
            <<"relationship_activity", "relationship_coping">>
      [] OTHER -> <<>>

\* the positions of scope whose list holds name
Holders(t, scope, name) == {k \in 1..Len(scope) : HasName(t[scope[k]], name)}

\* the earliest list of scope that holds name
Earliest(t, scope, name) ==
    scope[CHOOSE k \in Holders(t, scope, name) : \A g \in Holders(t, scope, name) : k <= g]

\* the outcome r of an update or increment of name under category on tracker t of row id:
\* not-found with no table changed when no list of the scope holds name, else the value
\* stored on the first activity called name of the earliest list of the scope, and no
\* other activity changed
ActsOnEarliest(r, t, id, name, category, value) ==
    LET scope == ScopeOf(category)
    IN  IF Holders(t, scope, name) = {}
          THEN r.error = ErrActivityNotFound /\ r.db = DB
          ELSE /\ r.error = Ok
               /\ OnlyChanged(t, r.db.trackers[id], Earliest(t, scope, name),
                              FirstIndex(t[Earliest(t, scope, name)], name), value)

\* C13: on a tracker with activities, an update, an increment or a reset of an activity by
\* name scans, without a category, the eight lists in the order health_activity,
\* work_activity, growth_activity, relationship_activity, health_coping, productivity_coping,
\* mindfulness_coping, relationship_coping and changes only the first match: when several
\* lists hold the name only the earliest one changes.  With a category it scans that
\* category's activity list, then its coping list, and ends in not-found, changing nothing,
\* when the name stands only in lists outside the scope.
C13_ScanOrder ==
    \A id \in DOMAIN trackers : \A l \in logs : \A category \in CategoryInputs \ {BadCategory} :
        (l.id = id /\ has_activities(trackers[id])) =>
            LET t == trackers[id]
            IN  /\ \A v \in 0..MaxComplete :
                    ActsOnEarliest(
                        update_activity_complete(DB, l.user_id, l.date, "walk", v, category, id),
                        t, id, "walk", category, v)
                /\ \A d \in 1..MaxComplete :
                    Holders(t, ScopeOf(category), "walk") # {} =>
                        ActsOnEarliest(
                            increment_activity_complete(DB, l.user_id, l.date, "walk", d,
                                                        category, id),
                            t, id, "walk", category,
                            d + t[Earliest(t, ScopeOf(category), "walk")][
                                    FirstIndex(t[Earliest(t, ScopeOf(category), "walk")], "walk")
                                  ].configuration.complete)

\* an update has succeeded on a tracker that holds walk in health_activity and in a coping
\* list: the one of health_activity carries the value, the one of the coping list still 0
C13_Witness ==
    /\ last.op = "update_complete"
    /\ last.result = Ok
    /\ last.arg = 1
    /\ \E id \in DOMAIN trackers : \E f \in FieldSet \ ActivityFields :
        /\ trackers[id].health_activity # <<>>
        /\ trackers[id].health_activity[1].configuration.complete = 1
        /\ trackers[id][f] # <<>>
        /\ trackers[id][f][1].configuration.complete = 0

-----------------------------------------------------------------------------
\* C14: update_activity_complete with a value v >= 0 that succeeds stores exactly v on one
\* activity of the day's tracker and changes no other activity, no other field, no other
\* tracker and not the catalog (on a tracker not yet Populated the other activities are the
\* catalog's, with complete = 0); with v < 0 it ends in the validation error "Complete value
\* must be non-negative" and changes no table, whatever the lifecycle stage of the tracker.
C14_UpdateExact ==
    /\ [][last'.op = "update_complete" =>
            LET v == last'.arg
                u == last'.user
                id == RowId(logs, nextId, u, last'.date)
                base == IF last'.was = "Populated" THEN trackers[id]
                        ELSE SnapshotOf(priorities[u])
            IN  /\ (v < 0) <=> (last'.result = ErrNegative)
                /\ v < 0 => UNCHANGED store
                /\ last'.result = Ok =>
                    /\ \E f \in FieldSet : \E i \in DOMAIN trackers'[id][f] :
                            OnlyChanged(base, trackers'[id], f, i, v)
                    /\ \A j \in DOMAIN trackers \ {id} : trackers'[j] = trackers[j]
                    /\ priorities' = priorities]_vars
    /\ [](\A u \in Users : \A id \in LogIds(DB, u, "d1") :
            \A n \in Names : \A category \in CategoryInputs :
                update_activity_complete(DB, u, "d1", n, -1, category, id)
                    = [db |-> DB, error |-> ErrNegative])

\* an update with the largest value has succeeded and the value is stored
C14_Witness ==
    /\ last.op = "update_complete"
    /\ last.result = Ok
    /\ last.arg = MaxComplete
    /\ \E id \in DOMAIN trackers : \E f \in ActivityFields :
        /\ trackers[id][f] # <<>>
        /\ trackers[id][f][1].configuration.complete = MaxComplete

-----------------------------------------------------------------------------
\* tracker t with complete = 0 on every activity of the lists of scope, nothing else changed
ZeroedIn(t, scope) ==
    [f \in FieldSet |-> IF \E k \in 1..Len(scope) : scope[k] = f THEN Zeroed(t[f]) ELSE t[f]]

\* C15: on a tracker with activities, reset_activity sets complete to 0 on the one matched
\* activity and changes nothing else; reset_category_activities(c) sets complete to 0 on
\* every activity of c's two lists and leaves the other six lists as they were;
\* reset_all_activities sets complete to 0 on every activity of the eight lists.  None of
\* them changes another field, the membership or the order of a list, or another table, and
\* running one a second time changes nothing more.
C15_Resets ==
    \A id \in DOMAIN trackers : \A l \in logs :
        (l.id = id /\ has_activities(trackers[id])) =>
            LET t == trackers[id]
                u == l.user_id
                d == l.date
            IN  /\ \A category \in CategoryInputs \ {BadCategory} :
                    LET r == update_activity_complete(DB, u, d, "walk", 0, category, id)
                    IN  /\ ActsOnEarliest(r, t, id, "walk", category, 0)
                        /\ update_activity_complete(r.db, u, d, "walk", 0, category, id) = r
                /\ \A category \in Categories :
                    LET r == reset_category_activities(DB, u, d, category, id)
                    IN  /\ r.error = Ok
                        /\ r.db = [DB EXCEPT !.trackers[id] = ZeroedIn(t, ScopeOf(category))]
                        /\ reset_category_activities(r.db, u, d, category, id) = r
                /\ LET r == reset_all_activities(DB, u, d, id)
                    IN  /\ r.error = Ok
                        /\ r.db = [DB EXCEPT !.trackers[id] = ZeroedIn(t, ScanOrder)]
                        /\ reset_all_activities(r.db, u, d, id) = r

\* a category reset has run on a tracker that holds a value in a coping list of another
\* category: one list stands at 0, the coping list still holds its value
C15_Witness ==
    /\ last.op = "reset_category"
    /\ last.result = Ok
    /\ \E id \in DOMAIN trackers : \E f \in ActivityFields : \E g \in FieldSet \ ActivityFields :
        /\ trackers[id][f] # <<>>
        /\ trackers[id][f][1].configuration.complete = 0
        /\ trackers[id][g] # <<>>
        /\ trackers[id][g][1].configuration.complete = 1

-----------------------------------------------------------------------------
\* C16: the category map is fixed: health scopes to health_activity and health_coping, work
\* to work_activity and productivity_coping, growth to growth_activity and
\* mindfulness_coping, relationship and relationships both to relationship_activity and
\* relationship_coping; and in every state each tracker call that takes a category (update,
\* increment, reset of an activity, reset of a category) returns the same outcome and the
\* same tables for the two spellings.
C16_CategoryMap ==
    /\ \A category \in Categories : category_map(category) = ScopeOf(category)
    /\ \A u \in Users : \A id \in LogIds(DB, u, "d1") :
        /\ \A v \in UpdateValues :
            update_activity_complete(DB, u, "d1", "walk", v, "relationship", id)
                = update_activity_complete(DB, u, "d1", "walk", v, "relationships", id)
        /\ \A d \in Increments :
            increment_activity_complete(DB, u, "d1", "walk", d, "relationship", id)
                = increment_activity_complete(DB, u, "d1", "walk", d, "relationships", id)
        /\ reset_category_activities(DB, u, "d1", "relationship", id)
                = reset_category_activities(DB, u, "d1", "relationships", id)
        /\ \A v \in 0..MaxComplete :
            (/\ Exists(DB, id)
             /\ has_activities(DB.trackers[id])
             /\ \E f \in {"relationship_activity", "relationship_coping"} :
                    HasName(DB.trackers[id][f], "walk"))
            => update_activity_complete(DB, u, "d1", "walk", v, "relationships", id).error = Ok

\* an update scoped to the relationship category has stored a value in relationship_coping
C16_Witness ==
    /\ last.op = "update_complete"
    /\ last.result = Ok
    /\ \E id \in DOMAIN trackers :
        /\ trackers[id].relationship_activity = <<>>
        /\ trackers[id].relationship_coping # <<>>
        /\ trackers[id].relationship_coping[1].configuration.complete = 1

-----------------------------------------------------------------------------
\* C17: on a tracker with activities, a call that carries a category string outside health,
\* work, growth, relationship, relationships ends in the invalid-category validation error,
\* not in activity-not-found, and does so alike for update_activity_complete,
\* increment_activity_complete, reset_activity and reset_category_activities.
C17_InvalidCategory ==
    \A u \in Users : \A id \in LogIds(DB, u, "d1") : \A n \in Names :
        (/\ Exists(DB, id)
         /\ has_activities(trackers[id])
         /\ \E f \in FieldSet : HasName(trackers[id][f], n))
        => /\ update_activity_complete(DB, u, "d1", n, 1, BadCategory, id).error
                = ErrInvalidCategory
           /\ increment_activity_complete(DB, u, "d1", n, 1, BadCategory, id).error
                = ErrInvalidCategory
           /\ update_activity_complete(DB, u, "d1", n, 0, BadCategory, id).error
                = ErrInvalidCategory
           /\ reset_category_activities(DB, u, "d1", BadCategory, id).error
                = ErrInvalidCategory

-----------------------------------------------------------------------------
\* C18 as stated: initialize_daily_activities for a user who has no user_priorities row ends
\* in the validation error "No user priorities found".
C18_InitializeNeedsCatalog ==
    [][(last'.op = "initialize" /\ last'.user \notin DOMAIN priorities)
            => last'.result = ErrNoPriorities]_vars

\* C18: initialize_daily_activities for a user who has no user_priorities row ends in the
\* validation error "No user priorities found" when the day's tracker is Absent or Empty, and
\* then leaves the day's row in place with an Empty tracker; when the tracker is already
\* Populated it succeeds and changes no table.  It ends in that error for no user who has a
\* user_priorities row.
C18_InitializeNoCatalog ==
    [][last'.op = "initialize" =>
          LET u == last'.user
              d == last'.date
          IN  /\ last'.result = ErrNoPriorities => u \notin DOMAIN priorities
              /\ (u \notin DOMAIN priorities /\ last'.was = "Populated") =>
                    (last'.result = Ok /\ UNCHANGED store)
              /\ (u \notin DOMAIN priorities /\ last'.was # "Populated") =>
                    /\ last'.result = ErrNoPriorities
                    /\ \E l \in logs' :
                        /\ l.user_id = u /\ l.date = d
                        /\ \A f \in ActivityFields : trackers'[l.id][f] = <<>>
                    /\ priorities' = priorities]_vars

\* initialize_daily_activities has ended in the error for a user without a catalog whose
\* tracker was Absent, and the row it created is there with an Empty tracker
C18_Witness ==
    /\ last.op = "initialize"
    /\ last.result = ErrNoPriorities
    /\ last.was = "Absent"
    /\ last.user \notin DOMAIN priorities
    /\ Stage(last.user, last.date) = "Empty"

-----------------------------------------------------------------------------
\* the check-in row of (user, date) before a call: the stored one, or the empty one the call
\* creates with the log row
CheckinBefore(user, date) ==
    IF LogsOf(user, date) # {} THEN checkins[RowId(logs, nextId, user, date)] ELSE EmptyCheckin

\* C19: for each check-in field of a day, add at timestamp T succeeds iff T is not yet a
\* key of that field, and then maps T to the value given; an add at a T that is a key fails
\* and leaves the stored value; update at T fails iff T is not a key of that field (no call
\* removes a key, so: iff T was never added to it) and otherwise replaces the value at T.
\* Keys are per field, and the entries at other timestamps and in other fields, and the
\* tracker, journal and conversation, are as they were after either call.
C19_CheckinEntries ==
    [][last'.op \in {"add_checkin", "update_checkin"} =>
          LET a == last'.arg
              key == isoformat(a.timestamp)
              id == RowId(logs, nextId, last'.user, last'.date)
              before == CheckinBefore(last'.user, last'.date)
              after == checkins'[id]
              stored == [before EXCEPT ![a.field] =
                            [k \in DOMAIN before[a.field] \cup {key} |->
                                IF k = key THEN a.value ELSE before[a.field][k]]]
          IN  /\ last'.op = "add_checkin" =>
                    /\ (last'.result = Ok) <=> (key \notin DOMAIN before[a.field])
                    /\ last'.result # Ok => last'.result = ErrEntryExists
              /\ last'.op = "update_checkin" =>
                    /\ (last'.result = Ok) <=> (key \in DOMAIN before[a.field])
                    /\ last'.result # Ok => last'.result = ErrTimestampNotFound
              /\ after = IF last'.result = Ok THEN stored ELSE before
              /\ \A j \in DOMAIN checkins \ {id} : checkins'[j] = checkins[j]
              /\ \A j \in DOMAIN trackers :
                    /\ trackers'[j] = trackers[j]
                    /\ journals'[j] = journals[j]
                    /\ chatbots'[j] = chatbots[j]
              /\ priorities' = priorities]_vars

\* a second add at a timestamp of the mood field has failed: the value of the first add is
\* still stored, and the sleep field holds its own entry at the same timestamp
C19_Witness ==
    /\ last.op = "add_checkin"
    /\ last.result = ErrEntryExists
    /\ last.arg.field = "mood"
    /\ last.arg.value = "sad"
    /\ \E id \in DOMAIN checkins :
        /\ isoformat(last.arg.timestamp) \in DOMAIN checkins[id].mood
        /\ checkins[id].mood[isoformat(last.arg.timestamp)] = "happy"
        /\ isoformat(last.arg.timestamp) \in DOMAIN checkins[id].sleep

-----------------------------------------------------------------------------
\* the journal of (user, date) before a call: the stored one, or the empty one the call
\* creates with the log row
JournalBefore(user, date) ==
    IF LogsOf(user, date) # {} THEN journals[RowId(logs, nextId, user, date)] ELSE EmptyJournal

\* the four components of a request, in the order of the stored entry
Provided(a) == <<a.entry_type, a.content, a.sentiment, a.topics>>

\* C20: add_journal_entry at timestamp T succeeds iff T is not a key of the day's journal
\* (it then stores [entry_type, content, sentiment, topics or []] at T) and otherwise fails
\* and leaves the journal as it was; update_journal_entry at T fails, journal unchanged, when
\* T is not a key, and otherwise replaces at T exactly the components its request provides:
\* the components not provided keep their values, the keys stay the same, and every other
\* entry, every other row and every other table is as it was.
C20_JournalEntries ==
    [][last'.op \in {"add_journal", "update_journal"} =>
          LET a == last'.arg
              key == isoformat(a.timestamp)
              id == RowId(logs, nextId, last'.user, last'.date)
              before == JournalBefore(last'.user, last'.date)
              after == journals'[id]
          IN  /\ last'.op = "add_journal" =>
                    /\ (last'.result = Ok) <=> (key \notin DOMAIN before)
                    /\ last'.result # Ok => last'.result = ErrEntryAlreadyExists
                    /\ last'.result = Ok =>
                          /\ DOMAIN after = DOMAIN before \cup {key}
                          /\ after[key] = <<a.entry_type, a.content, a.sentiment,
                                            IF a.topics = None THEN <<>> ELSE a.topics>>
              /\ last'.op = "update_journal" =>
                    /\ (last'.result = Ok) <=> (key \in DOMAIN before)
                    /\ last'.result # Ok => last'.result = ErrEntryNotFound
                    /\ last'.result = Ok =>
                          /\ DOMAIN after = DOMAIN before
                          /\ \A i \in 1..4 :
                                after[key][i] = IF Provided(a)[i] # None THEN Provided(a)[i]
                                                ELSE before[key][i]
              /\ last'.result # Ok => after = before
              /\ \A k \in DOMAIN before \ {key} : k \in DOMAIN after /\ after[k] = before[k]
              /\ \A j \in DOMAIN journals \ {id} : journals'[j] = journals[j]
              /\ \A j \in DOMAIN trackers :
                    /\ trackers'[j] = trackers[j]
                    /\ checkins'[j] = checkins[j]
                    /\ chatbots'[j] = chatbots[j]
              /\ priorities' = priorities]_vars

\* an update that provides the sentiment alone has acted on an entry added with all four
\* components: the other three are those of the add, and the journal holds a second entry
C20_Witness ==
    /\ last.op = "update_journal"
    /\ last.result = Ok
    /\ Provided(last.arg) = <<None, None, "calm", None>>
    /\ \E id \in DOMAIN journals :
        /\ Cardinality(DOMAIN journals[id]) = 2
        /\ journals[id][isoformat(last.arg.timestamp)] = <<"text", "x", "calm", <<>>>>

-----------------------------------------------------------------------------
\* the ids of the stored daily logs
LogIdSet == {l.id : l \in logs}

\* C21: in every reachable state the ids of the check-in, journal, chatbot-log and tracker
\* rows are exactly the ids of the daily-log rows (the id is the primary key of each table,
\* so one row per id), and no two daily logs share an id; a delete_by_id or delete_by_date
\* that returns True (a step of a call that is not one of the two-step requests) removes the
\* log row it names together with its four children, and leaves every other log and every
\* other child as it was.
C21_Children ==
    /\ [](/\ DOMAIN trackers = LogIdSet
          /\ DOMAIN checkins = LogIdSet
          /\ DOMAIN journals = LogIdSet
          /\ DOMAIN chatbots = LogIdSet
          /\ \A l1, l2 \in logs : l1.id = l2.id => l1 = l2)
    /\ [][(/\ last'.op \in {"delete_by_id", "delete_by_date"}
            /\ last'.result = Ok
            /\ reqs' = reqs) =>
              /\ last'.arg \in LogIdSet
              /\ logs' = {l \in logs : l.id # last'.arg}
              /\ last'.op = "delete_by_date" =>
                    \E l \in logs : /\ l.id = last'.arg
                                    /\ l.user_id = last'.user
                                    /\ l.date = last'.date
              /\ DOMAIN trackers' = LogIdSet \ {last'.arg}
              /\ DOMAIN checkins' = LogIdSet \ {last'.arg}
              /\ DOMAIN journals' = LogIdSet \ {last'.arg}
              /\ DOMAIN chatbots' = LogIdSet \ {last'.arg}
              /\ \A j \in LogIdSet \ {last'.arg} :
                    /\ trackers'[j] = trackers[j]
                    /\ checkins'[j] = checkins[j]
                    /\ journals'[j] = journals[j]
                    /\ chatbots'[j] = chatbots[j]]_vars

\* delete_by_date has removed one of the two logs of a day whose journal held an entry: that
\* journal is gone, and the other log of the day is still there with its children
C21_Witness ==
    /\ last.op = "delete_by_date"
    /\ last.result = Ok
    /\ last.arg \notin DOMAIN journals
    /\ \E l \in logs :
        /\ l.user_id = last.user
        /\ l.date = last.date
        /\ journals[l.id] # EmptyJournal

-----------------------------------------------------------------------------
\* C22: in every reachable state every activity stored in a user_priorities row has a unit
\* that is in the allowed-unit set of its dimension, whichever of create, record update,
\* add_activity, bulk_add and update_activity (also one that gives the dimension alone or
\* the unit alone) stored it.
C22_UnitsValid ==
    \A u \in DOMAIN priorities : \A c \in Columns : \A i \in DOMAIN priorities[u][c] :
        LET config == priorities[u][c][i].configuration
        IN  /\ config.dimension \in DOMAIN DIMENSION_UNITS
            /\ config.unit \in DIMENSION_UNITS[config.dimension]

-----------------------------------------------------------------------------
\* C23: in every reachable state every activity stored in a user_priorities row has
\* quota.value > 0 and complete >= 0, whichever of the create, record update, add_activity,
\* bulk_add, update_activity and progress endpoints stored or changed it.
C23_QuotaPositive ==
    \A u \in DOMAIN priorities : \A c \in Columns : \A i \in DOMAIN priorities[u][c] :
        LET config == priorities[u][c][i].configuration
        IN  /\ config.quota.value > 0
            /\ config.complete >= 0

\* an update_activity request has changed the quota of a stored activity
C23_Witness ==
    /\ last.op = "update_activity"
    /\ last.result = Ok
    /\ \E u \in DOMAIN priorities : \E i \in DOMAIN priorities[u].health_activities :
        LET config == priorities[u].health_activities[i].configuration
        IN  config.quota.value = 3 /\ config.complete = MaxComplete

-----------------------------------------------------------------------------
\* the three conditions on the arguments of build_activity
UnitQuotaComplete(request) ==
    /\ request.unit \in DIMENSION_UNITS[request.dimension]
    /\ request.quota_value > 0
    /\ request.complete >= 0

\* C24 as stated: build_activity returns an activity exactly when the unit is in the table
\* entry of the dimension, quota_value > 0 and complete >= 0.
C24_BuildExact ==
    [][last'.op = "build_activity" =>
          ((last'.result = Ok) <=> UnitQuotaComplete(last'.arg.request))]_vars

\* C24 amended: build_activity returns an activity exactly when the unit is in the table
\* entry of the dimension, quota_value > 0, complete >= 0 and the name and the description
\* are not empty; the activity returned carries the arguments as they were given; every
\* other call fails with a validation error and returns nothing; no call changes the stored
\* tables.
C24_BuildValid ==
    [][last'.op = "build_activity" =>
          LET request == last'.arg.request
              activity == last'.arg.activity
          IN  /\ (last'.result = Ok) <=>
                    /\ UnitQuotaComplete(request)
                    /\ request.name # ""
                    /\ request.description # ""
              /\ last'.result = Ok =>
                    /\ activity.name = request.name
                    /\ activity.description = request.description
                    /\ activity.pillar = request.pillar
                    /\ activity.configuration.dimension = request.dimension
                    /\ activity.configuration.complete = request.complete
                    /\ activity.configuration.unit = request.unit
                    /\ activity.configuration.quota.value = request.quota_value
                    /\ activity.configuration.quota.reset_frequency = request.reset_frequency
              /\ last'.result # Ok =>
                    /\ last'.result \in {ErrInvalidUnit, ErrPydantic}
                    /\ activity = None
              /\ request.unit \notin DIMENSION_UNITS[request.dimension] =>
                    last'.result = ErrInvalidUnit
              /\ store' = store]_vars

\* build_activity was called with dimension distance and unit minutes, all other arguments
\* in range, while a catalog was stored: it failed on the unit
C24_Witness ==
    /\ last.op = "build_activity"
    /\ last.result = ErrInvalidUnit
    /\ last.arg.request.dimension = "distance"
    /\ last.arg.request.unit = "minutes"
    /\ last.arg.request.name = "walk"
    /\ last.arg.request.quota_value > 0
    /\ last.arg.request.complete >= 0
    /\ priorities # <<>>

-----------------------------------------------------------------------------
\* the records stored before a step are stored, unchanged, after it
RecordsKept ==
    \A v \in DOMAIN priorities : v \in DOMAIN priorities' /\ priorities'[v] = priorities[v]

\* C25: a create_priorities call that runs alone succeeds iff the user has no record, and
\* otherwise fails with the conflict error; a create whose exists() test and INSERT are
\* separated by other requests succeeds iff the user had no record at the test and has none
\* when it inserts; no
\* create, successful or not, changes or replaces a record that is stored (the table is
\* keyed by the user's id, so a user has at most one record), and a successful create adds
\* the record of its user only.
C25_CreateOnce ==
    /\ [][(last'.op = "create_priorities" /\ reqs' = reqs) =>
              LET u == last'.user
              IN  /\ (last'.result = Ok) <=> (u \notin DOMAIN priorities)
                  /\ last'.result # Ok =>
                        last'.result = ErrPrioritiesExist /\ priorities' = priorities
                  /\ last'.result = Ok => DOMAIN priorities' = DOMAIN priorities \cup {u}
                  /\ RecordsKept]_vars
    /\ [][\A proc \in Procs :
              (reqs[proc].pc = "checked" /\ reqs'[proc].pc = "idle") =>
                  LET u == reqs[proc].user
                  IN  /\ (last'.result = Ok) <=>
                            (~reqs[proc].exists /\ u \notin DOMAIN priorities)
                      /\ last'.result # Ok =>
                            /\ last'.result \in {ErrPrioritiesExist, ErrIntegrity}
                            /\ priorities' = priorities
                      /\ last'.result = Ok =>
                            /\ DOMAIN priorities' = DOMAIN priorities \cup {u}
                            /\ priorities'[u] = reqs[proc].data
                      /\ RecordsKept]_vars

\* a create for a user whose record holds walk has failed with the conflict error, and the
\* record still holds walk
C25_Witness ==
    /\ last.op = "create_priorities"
    /\ last.result = ErrPrioritiesExist
    /\ last.user \in DOMAIN priorities
    /\ priorities[last.user].health_activities = <<Build(Request("walk", "health", 0))>>
    /\ \A proc \in Procs : reqs[proc].pc = "idle"

-----------------------------------------------------------------------------
\* the value a request gives for a field, or the value the field had
Given(updates, k, old) == IF k \in DOMAIN updates THEN updates[k] ELSE old

\* activity b is activity a with exactly the fields of updates replaced
MergedOnly(a, b, updates) ==
    /\ b.name = a.name
    /\ b.pillar = a.pillar
    /\ b.description = Given(updates, "description", a.description)
    /\ b.configuration.dimension = Given(updates, "dimension", a.configuration.dimension)
    /\ b.configuration.complete = Given(updates, "complete", a.configuration.complete)
    /\ b.configuration.unit = Given(updates, "unit", a.configuration.unit)
    /\ b.configuration.quota.value = Given(updates, "quota_value", a.configuration.quota.value)
    /\ b.configuration.quota.reset_frequency =
            Given(updates, "reset_frequency", a.configuration.quota.reset_frequency)

\* C26: update_activity(user, pillar, name, updates) on a pillar that holds the name changes,
\* in the first activity of that name, exactly the fields among description, dimension,
\* complete, unit, quota.value and quota.reset_frequency that the request provides; the
\* fields not provided, the activity's name, pillar and position, every other activity of
\* the list and the other pillars' lists stay as they were.  When the pillar does not hold
\* the name the call fails with an error that says not found and changes nothing (so does a
\* request whose dimension and unit, both given, disagree: it fails on the unit).
C26_UpdateMerges ==
    [][\A u \in Users, p \in UpdatePillars, n \in UpdateNames, upd \in ActivityUpdates :
        (u \in DOMAIN priorities /\ UpdateUserActivity(u, p, n, upd))
        => LET column == ColumnName(p)
               P == priorities[u][column]
               Q == priorities'[u][column]
           IN  IF /\ {"dimension", "unit"} \subseteq DOMAIN upd
                  /\ upd["unit"] \notin DIMENSION_UNITS[upd["dimension"]]
                 THEN /\ last'.result = ErrInvalidUnit
                      /\ priorities' = priorities
               ELSE IF \A i \in DOMAIN P : P[i].name # n
                 THEN /\ last'.result \in {ErrNoActivitiesInPillar, ErrActivityNotInPillar}
                      /\ priorities' = priorities
                 ELSE /\ last'.result = Ok
                      /\ DOMAIN priorities' = DOMAIN priorities
                      /\ Len(Q) = Len(P)
                      /\ \E i \in DOMAIN P :
                            /\ P[i].name = n
                            /\ \A j \in 1..(i - 1) : P[j].name # n
                            /\ MergedOnly(P[i], Q[i], upd)
                            /\ \A j \in DOMAIN P \ {i} : Q[j] = P[j]
                      /\ \A c \in Columns \ {column} : priorities'[u][c] = priorities[u][c]]_vars

\* an update has changed the quota value of walk, the second activity of the health list:
\* its complete value and unit are those it was stored with, and read is as it was stored
C26_Witness ==
    /\ last.op = "update_activity"
    /\ last.result = Ok
    /\ \E u \in DOMAIN priorities :
        /\ priorities[u].health_activities[1] = Build(Request("read", "health", 1))
        /\ priorities[u].health_activities[2] =
                [Build(Request("walk", "health", 1)) EXCEPT !.configuration.quota.value = 3]

-----------------------------------------------------------------------------
\* the list acts without the activities called name, the others in their order
RECURSIVE Without(_, _)
Without(acts, name) ==
    IF acts = <<>> THEN <<>>
    ELSE IF Head(acts).name = name THEN Without(Tail(acts), name)
    ELSE <<Head(acts)>> \o Without(Tail(acts), name)

\* C27: remove_activity(user, pillar, name) fails with the not-found error and leaves the
\* record unchanged when the pillar's list holds no activity of that name; otherwise it
\* succeeds and the list is the previous list without the activities of that name, the
\* remaining activities in their previous order, and the other pillars' lists unchanged.
C27_RemoveActivity ==
    [][\A u \in Users, p \in UpdatePillars, n \in RemoveNames :
        (u \in DOMAIN priorities /\ RemoveUserActivity(u, p, n))
        => LET column == ColumnName(p)
               P == priorities[u][column]
           IN  IF \A i \in DOMAIN P : P[i].name # n
                 THEN /\ last'.result = ErrActivityNotInPillar
                      /\ priorities' = priorities
                 ELSE /\ last'.result = Ok
                      /\ DOMAIN priorities' = DOMAIN priorities
                      /\ priorities'[u][column] = Without(P, n)
                      /\ \A c \in Columns \ {column} : priorities'[u][c] = priorities[u][c]]_vars

\* an activity has been removed from the middle of a health list of three: swim and read are
\* left, in that order, and the walk of the relationships pillar is still stored
C27_Witness ==
    /\ last.op = "remove_activity"
    /\ last.result = Ok
    /\ \E u \in DOMAIN priorities :
        /\ priorities[u].health_activities =
                <<Build(Request("swim", "health", 0)), Build(Request("read", "health", 0))>>
        /\ HasName(priorities[u].relationships_activities, "walk")

-----------------------------------------------------------------------------
\* the list of one pillar after the items of a bulk add, taken in request order: an item of
\* the pillar is appended when its unit is in the table of its dimension and the list, as
\* grown so far, holds no activity of its name
RECURSIVE AfterBulkAdd(_, _, _)
AfterBulkAdd(acts, requests, pillar) ==
    IF requests = <<>> THEN acts
    ELSE LET r == Head(requests)
             take == /\ r.pillar = pillar
                     /\ r.unit \in DIMENSION_UNITS[r.dimension]
                     /\ \A i \in DOMAIN acts : acts[i].name # r.name
         IN  AfterBulkAdd(IF take THEN Append(acts, Build(r)) ELSE acts, Tail(requests), pillar)

\* C28: bulk_add never raises for an item: for each pillar, in request order, it appends each
\* item (that the service builds: its unit is in the table of its dimension) whose name is
\* not in that pillar's list as grown so far in the call, and skips every other item; the
\* entries stored before stay unchanged and in place at the head of the list, and an item
\* that is skipped does not keep a later item from being added.
C28_BulkAddSkips ==
    [][last'.op = "bulk_add" =>
        \A u \in Users, rs \in BulkAddInputs :
            (u \in DOMAIN priorities /\ BulkAddUserActivities(u, rs))
            => /\ last'.result = Ok
               /\ DOMAIN priorities' = DOMAIN priorities
               /\ \A p \in PillarName :
                    LET P == priorities[u][ColumnName(p)]
                        Q == priorities'[u][ColumnName(p)]
                    IN  /\ Q = AfterBulkAdd(P, rs, p)
                        /\ Len(Q) >= Len(P)
                        /\ SubSeq(Q, 1, Len(P)) = P
                        /\ \A i \in DOMAIN rs :
                              (rs[i].pillar = p /\ rs[i].unit \in DIMENSION_UNITS[rs[i].dimension])
                                  => HasName(Q, rs[i].name)]_vars

\* a bulk add whose first item repeated the stored walk has added read behind it: the walk
\* stored before is unchanged at the head of the health list
C28_Witness ==
    /\ last.op = "bulk_add"
    /\ last.result = Ok
    /\ \E u \in DOMAIN priorities :
        priorities[u].health_activities =
            <<Build(Request("walk", "health", 1)), Build(Request("read", "health", 0))>>

-----------------------------------------------------------------------------
\* the positions of the activities of the four activity lists of a tracker that satisfy B
Counted(t, B(_)) ==
    {<<f, i>> \in ActivityFields \X (1..4) : i <= Len(t[f]) /\ B(t[f][i])}

IsNotStarted(a) == a.configuration.complete = 0

IsCompleted(a) ==
    /\ a.configuration.complete # 0
    /\ a.configuration.quota.value > 0
    /\ a.configuration.complete >= a.configuration.quota.value

IsAny(a) == TRUE

\* the counts of a progress summary: only the four activity lists are counted, each
\* activity in exactly one bucket, and a day without a tracker has all-zero counts
SummaryCounts ==
    last.op = "progress_summary" =>
        LET s == last.arg
            rows == get_by_user_and_date(DB, last.user, last.date)
        IN  /\ s.total = s.completed + s.in_progress + s.not_started
            /\ rows = {} => s = NoSummary
            /\ \A l \in rows :
                 LET t == trackers[l.id]
                 IN  /\ s.total = Cardinality(Counted(t, IsAny))
                     /\ s.not_started = Cardinality(Counted(t, IsNotStarted))
                     /\ s.completed = Cardinality(Counted(t, IsCompleted))
                     /\ s.in_progress = s.total - s.not_started - s.completed

\* C29 as stated: the counts are as above and completion_rate is exactly
\* completed / total * 100 (the rate is held in hundredths of a percent), 0 when total is 0.
C29_SummaryExact ==
    /\ SummaryCounts
    /\ last.op = "progress_summary" =>
         IF last.arg.total = 0 THEN last.arg.completion_rate = 0
         ELSE last.arg.completion_rate * last.arg.total = last.arg.completed * 10000

\* C29: progress_summary counts only the activities of the four activity lists, never the
\* coping lists; each counted activity is in exactly one bucket (not_started iff complete is
\* 0, completed iff complete is not 0 and quota > 0 and complete >= quota, in_progress
\* otherwise), so total = completed + in_progress + not_started; completion_rate is
\* completed / total * 100 rounded to two decimals, 0 when total is 0, and every count is 0
\* when the day has no tracker.
C29_SummaryRounded ==
    /\ SummaryCounts
    /\ last.op = "progress_summary" =>
         IF last.arg.total = 0 THEN last.arg.completion_rate = 0
         ELSE LET d == last.arg.completion_rate * last.arg.total - last.arg.completed * 10000
              IN  2 * d <= last.arg.total /\ 2 * d >= 0 - last.arg.total

\* a summary of a tracker that holds a coping entry with progress: three activities counted,
\* one in each bucket, and a rate of 33.33
C29_Witness ==
    /\ last.op = "progress_summary"
    /\ last.arg = [total |-> 3, completed |-> 1, in_progress |-> 1, not_started |-> 1,
                   completion_rate |-> 3333]
    /\ \E id \in DOMAIN trackers :
        /\ trackers[id].health_coping # <<>>
        /\ trackers[id].health_coping[1].configuration.complete > 0

-----------------------------------------------------------------------------
\* the lists a streak call scans for the activity
StreakScope(op, category) ==
    IF category # NoCategory THEN {category_map(category)[k] : k \in DOMAIN category_map(category)}
    ELSE IF op = "activity_streak" THEN FieldSet
    ELSE ActivityFields

\* day d qualifies: a row of the user for the day exists and its tracker holds the activity,
\* in the scanned lists, with its goal met
Qualifies(op, user, d, name, category) ==
    \E l \in logs :
        /\ l.user_id = user /\ l.date = d
        /\ \E f \in StreakScope(op, category) : \E i \in DOMAIN trackers[l.id][f] :
            LET a == trackers[l.id][f][i]
            IN  /\ a.name = name
                /\ \/ a.configuration.quota.value > 0
                      /\ a.configuration.complete >= a.configuration.quota.value
                   \/ a.configuration.quota.value = 0 /\ a.configuration.complete > 0

\* the k days ending at day d all qualify
RunEndingAt(op, user, d, k, name, category) ==
    \A j \in 0..(k - 1) : Qualifies(op, user, d - j, name, category)

\* the claim for the streak the call op has returned
StreakAsClaimed(op) ==
    last.op = op =>
        LET r == last.arg
            n == r.days_checked
            first == Today - n + 1
            runs == {k \in 0..n : \E d \in first..Today :
                        d - k + 1 >= first
                        /\ RunEndingAt(op, last.user, d, k, r.activity_name, r.category)}
            ending == {k \in 0..n :
                        RunEndingAt(op, last.user, Today, k, r.activity_name, r.category)}
        IN  /\ r.current_streak \in ending
            /\ \A k \in ending : k <= r.current_streak
            /\ r.longest_streak \in runs
            /\ \A k \in runs : k <= r.longest_streak
            /\ r.current_streak <= r.longest_streak
            /\ r.longest_streak <= n

\* the streak the service returns is the claimed one
ServiceStreak == StreakAsClaimed("activity_streak")

\* C30: activity_streak walks the days_to_check days ending today; a day qualifies iff its
\* tracker holds the named activity, in the scanned lists, with (quota > 0 and complete >=
\* quota) or (quota = 0 and complete > 0), and a day with no row or without the activity
\* breaks the run; current_streak is the number of consecutive qualifying days ending today,
\* longest_streak the longest run of consecutive qualifying days in the window, and
\* current_streak <= longest_streak <= days_to_check. Stated for the service's function and
\* for the crud's.
C30_Streak ==
    /\ StreakAsClaimed("activity_streak")
    /\ StreakAsClaimed("crud_activity_streak")

-----------------------------------------------------------------------------
\* C31: the aggregation and read operations (completion_percentage, progress_summary,
\* activity_streak, generate_daily_summary, get_activity_by_name, get_all_activities and the
\* tracker lookup under them) leave the whole store unchanged: no tracker and no priorities
\* record changes, no daily log is created for a day that has none, and no tracker is
\* initialized.
C31_ReadsFrame ==
    [][last'.op \in ReadOps =>
        /\ UNCHANGED store
        /\ DOMAIN trackers' = DOMAIN trackers
        /\ logs' = logs]_vars

\* get_activity_by_name has answered None for a day without a row although the user has a
\* catalog an initialization would have copied
C31_Witness ==
    /\ last.op = "get_activity_by_name"
    /\ ~last.arg.found
    /\ last.user \in DOMAIN priorities
    /\ priorities[last.user].health_activities # <<>>
    /\ get_by_user_and_date(DB, last.user, last.date) = {}

-----------------------------------------------------------------------------
\* C32: completion_percentage (held in hundredths of a percent) is 0 when the quota value is
\* 0 whatever complete is, and otherwise the smaller of 100 and complete / quota * 100
\* rounded to two decimals; it is always within 0..100, it is 100 whenever
\* complete >= quota > 0, and quota 10000 with complete 7500 gives 75.
C32_Percentage ==
    (last.op = "completion_percentage" /\ last.arg.found) =>
        \A l \in get_by_user_and_date(DB, last.user, last.date) :
            LET a == trackers[l.id].health_activity[1]
                c == a.configuration.complete
                q == a.configuration.quota.value
                p == last.arg.percentage
                d == p * q - c * 10000
            IN  /\ q = 0 => p = 0
                /\ p >= 0 /\ p <= 10000
                /\ (q > 0 /\ p < 10000) => (2 * d <= q /\ 2 * d >= 0 - q)
                /\ (q > 0 /\ p = 10000) => 2 * c * 10000 >= 19999 * q
                /\ (q > 0 /\ c >= q) => p = 10000
                /\ (q = 10000 /\ c = 7500) => p = 7500

\* the percentage of 7500 of 10000 has been computed
C32_Witness ==
    /\ last.op = "completion_percentage"
    /\ last.arg = [found |-> TRUE, percentage |-> 7500]
    /\ \E id \in DOMAIN trackers :
        /\ trackers[id].health_activity[1].configuration.complete = 7500
        /\ trackers[id].health_activity[1].configuration.quota.value = 10000

-----------------------------------------------------------------------------
\* the conversation of the day of the call, before it; empty when the day had no row
ChatBefore == IF last'.was = "Absent" THEN <<>> ELSE
    LET l == CHOOSE x \in logs : x.user_id = last'.user /\ x.date = last'.date IN chatbots[l.id]

\* C33: the chatbot conversation of a day is an ordered list. add_chatbot_message appends the
\* message at the end and leaves the earlier messages unchanged and in order;
\* delete_chatbot_message(i) with 0 <= i < length removes exactly the i-th message and keeps
\* the order of the rest, and with i out of range it returns false and leaves the
\* conversation unchanged; clear empties the conversation.
C33_Conversation ==
    [][last'.op \in {"add_chatbot", "delete_chatbot", "clear_chatbot"} =>
        \A l \in logs' :
            (l.user_id = last'.user /\ l.date = last'.date) =>
                LET old == ChatBefore
                    new == chatbots'[l.id]
                    i == last'.arg
                IN  /\ last'.op = "add_chatbot" =>
                         /\ last'.result = Ok
                         /\ Len(new) = Len(old) + 1
                         /\ new[Len(new)] = last'.arg
                         /\ \A k \in 1..Len(old) : new[k] = old[k]
                    /\ (last'.op = "delete_chatbot" /\ i >= 0 /\ i < Len(old)) =>
                         /\ last'.result = Ok
                         /\ Len(new) = Len(old) - 1
                         /\ \A k \in 1..i : new[k] = old[k]
                         /\ \A k \in (i + 1)..Len(new) : new[k] = old[k + 1]
                    /\ (last'.op = "delete_chatbot" /\ ~(i >= 0 /\ i < Len(old))) =>
                         /\ last'.result = ReturnedFalse
                         /\ new = old
                    /\ last'.op = "clear_chatbot" =>
                         /\ last'.result = Ok
                         /\ new = <<>>]_vars

\* the middle message of a conversation of three has been deleted: the first and the third
\* are left, in that order
C33_Witness ==
    /\ last.op = "delete_chatbot"
    /\ last.arg = 1
    /\ last.result = Ok
    /\ \E id \in DOMAIN chatbots :
        /\ Len(chatbots[id]) = 2
        /\ chatbots[id][1].role = "user"
        /\ chatbots[id][2].role = "assistant"
        /\ chatbots[id][1].timestamp # chatbots[id][2].timestamp

-----------------------------------------------------------------------------
\* the lifecycle transitions of a (user, date) while its log is not deleted
LifecycleSteps ==
    {<<x, x>> : x \in {"Absent", "Empty", "Populated"}}
        \cup {<<"Absent", "Empty">>, <<"Absent", "Populated">>, <<"Empty", "Populated">>}

\* C34: a tracker mutation (update, increment, the three resets, bulk update) keeps every
\* list of every Populated tracker as it is in everything but the complete values: no
\* activity is added, removed or moved, and no name, description, pillar, dimension, unit or
\* quota changes; on a tracker that is not Populated the only other change is the copy of the
\* catalog its initialization makes. A Populated tracker never becomes Empty again, and the
\* lifecycle of a (user, date) moves only Absent -> Empty, Absent -> Populated and
\* Empty -> Populated.
C34_ShapeKept ==
    /\ [][last'.op \in TrackerMutations =>
            /\ \A l \in logs :
                /\ l \in logs'
                /\ \/ ZeroedTracker(trackers'[l.id]) = ZeroedTracker(trackers[l.id])
                   \/ /\ Lifecycle(DB, l.id) = "Empty"
                      /\ l.user_id \in DOMAIN priorities
                      /\ ZeroedTracker(trackers'[l.id]) = SnapshotOf(priorities[l.user_id])
            /\ \A l \in logs' \ logs :
                \/ trackers'[l.id] = EmptyTracker
                \/ /\ l.user_id \in DOMAIN priorities
                   /\ ZeroedTracker(trackers'[l.id]) = SnapshotOf(priorities[l.user_id])]_vars
    /\ [][\A u \in Users, d \in Dates : <<Stage(u, d), Stage(u, d)'>> \in LifecycleSteps]_vars

\* a reset of all activities has run on a Populated tracker that holds progress while the
\* catalog no longer matches the tracker's lists
C34_Witness ==
    /\ last.op = "reset_all"
    /\ last.was = "Populated"
    /\ last.result = Ok
    /\ last.user \in DOMAIN priorities
    /\ \E l \in LogsOf(last.user, last.date) :
        /\ has_activities(trackers[l.id])
        /\ ZeroedTracker(trackers[l.id]) # SnapshotOf(priorities[last.user])

-----------------------------------------------------------------------------
\* C35: a complete value one request has committed is never set back to 0 by the
\* auto-initialization of a concurrent mutation request on the same (user, date): the write
\* of populate_activities_from_priorities leaves a tracker that holds committed progress as
\* it is.
C35_NoResetByInit ==
    [][\A proc \in Procs :
        (reqs[proc].pc = "populate" /\ reqs'[proc].pc # "populate") =>
            LET id == reqs[proc].daily_log
            IN  NonZero(trackers[id]) > 0 => trackers'[id] = trackers[id]]_vars

\* names of a list, as a set
NamesIn(activities) == {activities[i].name : i \in DOMAIN activities}

\* C36: an add_activity request that commits while the pillar's stored list already holds its
\* name (a concurrent request for the same name has added it) fails with the conflict error;
\* a request that succeeds leaves every activity the stored list held in it (a concurrent
\* request's activity of another name stays), with its own appended once.
C36_ConcurrentAdd ==
    [][\A proc \in Procs :
        (reqs[proc].pc = "adding" /\ reqs'[proc].pc = "idle") =>
            LET user == reqs[proc].user
                column == ColumnName(reqs[proc].req.pillar)
                stored == priorities[user][column]
            IN  /\ HasName(stored, reqs[proc].req.name) => last'.result = ErrActivityExists
                /\ last'.result = Ok =>
                      /\ NamesIn(stored) \subseteq NamesIn(priorities'[user][column])
                      /\ Cardinality({i \in DOMAIN priorities'[user][column] :
                              priorities'[user][column][i].name = reqs[proc].req.name}) = 1]_vars

\* the operations on the tracker, the check-in, the journal and the conversation of a day
DailyOps ==
    TrackerMutations \cup
    {"initialize", "add_checkin", "update_checkin", "add_journal", "update_journal",
     "delete_journal", "add_chatbot", "delete_chatbot", "clear_chatbot"}

\* a step of one of these operations that ends in an error or in a False result
FailedStep == last'.op \in DailyOps /\ last'.result # Ok

\* C37 as stated: an operation on the tracker, the check-in, the journal or the conversation
\* that ends in an error or in a 'nothing to delete' result leaves the catalog, the logs and
\* the four children of every log as they were.
C37_ErrorsLeaveStore ==
    [][FailedStep => UNCHANGED <<priorities, logs, trackers, checkins, journals, chatbots>>]_vars

\* C37, amended: such an operation leaves the catalog as it was and every log with its
\* check-in, journal and conversation as they were; the tracker of a log stays as it was
\* unless it was Empty, and then it may have become the catalog's snapshot; the one thing it
\* may add is the log of its own (user, date), with empty check-in, journal and conversation
\* and a tracker that is empty or the catalog's snapshot.
C37_ErrorsKeepData ==
    [][FailedStep =>
        /\ priorities' = priorities
        /\ logs \subseteq logs'
        /\ \A l \in logs :
              /\ checkins'[l.id] = checkins[l.id]
              /\ journals'[l.id] = journals[l.id]
              /\ chatbots'[l.id] = chatbots[l.id]
              /\ \/ trackers'[l.id] = trackers[l.id]
                 \/ /\ ~has_activities(trackers[l.id])
                    /\ l.user_id = last'.user /\ l.date = last'.date
                    /\ l.user_id \in DOMAIN priorities
                    /\ trackers'[l.id] = SnapshotOf(priorities[l.user_id])
        /\ Cardinality(logs' \ logs) <= 1
        /\ \A l \in logs' \ logs :
              /\ l.user_id = last'.user /\ l.date = last'.date
              /\ checkins'[l.id] = EmptyCheckin
              /\ journals'[l.id] = EmptyJournal
              /\ chatbots'[l.id] = EmptyConversation
              /\ \/ trackers'[l.id] = EmptyTracker
                 \/ /\ l.user_id \in DOMAIN priorities
                    /\ trackers'[l.id] = SnapshotOf(priorities[l.user_id])]_vars

\* an update of an unknown activity has failed on a day whose tracker was Empty, and the
\* tracker is populated now
C37_Witness ==
    /\ last.op = "update_complete" /\ last.result = ErrActivityNotFound /\ last.was = "Empty"
    /\ \E l \in logs : l.user_id = last.user /\ l.date = last.date /\ has_activities(trackers[l.id])

\* the logs of a user in db, each with its four children
ViewDB(db, user) ==
    {[log |-> l, tracker |-> db.trackers[l.id], checkin |-> db.checkins[l.id],
      journal |-> db.journals[l.id], chatbot |-> db.chatbots[l.id]] :
        l \in {x \in db.logs : x.user_id = user}}

\* the records of a user in the current state: the catalog, if there is one, and the logs
View(user) ==
    [priorities |-> IF user \in DOMAIN priorities THEN <<priorities[user]>> ELSE <<>>,
     logs |-> ViewDB(DB, user)]

\* db without the rows of the other users
StripDB(db, user) ==
    LET ids == {l.id : l \in {x \in db.logs : x.user_id = user}}
    IN  [logs |-> {l \in db.logs : l.user_id = user},
         trackers |-> [i \in ids |-> db.trackers[i]],
         checkins |-> [i \in ids |-> db.checkins[i]],
         journals |-> [i \in ids |-> db.journals[i]],
         chatbots |-> [i \in ids |-> db.chatbots[i]],
         nextId |-> db.nextId]

\* two outcomes of a call agree for user: the same result and the same records of user
SameOutcome(r, s, user) == r.error = s.error /\ ViewDB(r.db, user) = ViewDB(s.db, user)

\* the calls for user give, on the store without the other users' rows, what they give on
\* the store
SameWithoutOthers(user) ==
    LET S == StripDB(DB, user)
    IN  /\ LogIds(S, user, "d1") = LogIds(DB, user, "d1")
        /\ \A id \in LogIds(DB, user, "d1") :
              /\ ViewDB(get_or_create_daily_log(DB, user, "d1", id), user)
                    = ViewDB(get_or_create_daily_log(S, user, "d1", id), user)
              /\ SameOutcome(initialize_daily_activities(DB, user, "d1", id),
                             initialize_daily_activities(S, user, "d1", id), user)
              /\ \A n \in Names :
                    SameOutcome(update_activity_complete(DB, user, "d1", n, 1, NoCategory, id),
                                update_activity_complete(S, user, "d1", n, 1, NoCategory, id),
                                user)
              /\ SameOutcome(add_checkin_entry(DB, user, "d1", "mood", [hour |-> 1], "happy", id),
                             add_checkin_entry(S, user, "d1", "mood", [hour |-> 1], "happy", id),
                             user)

\* C38: a priorities or daily-log operation called for user U leaves the PrioritiesRecord and
\* the logs, with their children, of every other user as they were; and what a call for U
\* returns and does to U's records is what it returns and does when the store holds no row
\* of another user.
C38_UserIsolation ==
    [][/\ \A w \in TwoUsers \ {last'.user} : View(w)' = View(w)
       /\ \A u \in TwoUsers : SameWithoutOthers(u)]_vars

\* both users hold a catalog and a populated log of d1, with different data, and the last
\* call was an update of u1 that succeeded
C38_Witness ==
    /\ last.op = "update_complete" /\ last.user = "u1" /\ last.result = Ok
    /\ DOMAIN priorities = TwoUsers /\ priorities["u1"] # priorities["u2"]
    /\ \E a \in ViewDB(DB, "u1"), b \in ViewDB(DB, "u2") :
          /\ has_activities(a.tracker) /\ has_activities(b.tracker)
          /\ a.tracker # b.tracker /\ b.checkin # EmptyCheckin

====
